---- MODULE Spec2Model ----
(***************************************************************************)
(* Agent execution controller of the healthcare analytics assistant:       *)
(* the SQL guardrails (app/agent/guardrails.py), the validated executor    *)
(* (app/agent/sql_executor.py), the result validator                       *)
(* (app/agent/validator.py) and the retry-repair loop of the query path    *)
(* (app/agent/service.py).                                                 *)
(*                                                                         *)
(* Text (prompts, SQL) is a sequence of one-character strings, so that the *)
(* regular expressions and str methods of the source are computed on the   *)
(* characters.                                                             *)
(***************************************************************************)
EXTENDS Integers, Sequences, FiniteSets, TLC

\* ------------------------------------------------------------------------
\* Characters and the str / re primitives the source uses
\* ------------------------------------------------------------------------

UpperChars == <<"A","B","C","D","E","F","G","H","I","J","K","L","M","N","O","P","Q","R","S","T","U","V","W","X","Y","Z">>

LowerChars == <<"a","b","c","d","e","f","g","h","i","j","k","l","m","n","o","p","q","r","s","t","u","v","w","x","y","z">>

DigitChars == {"0","1","2","3","4","5","6","7","8","9"}

HexChars == DigitChars \cup {"a","b","c","d","e","f"}

UpperToLower ==
  [c \in {UpperChars[i] : i \in 1..26} |-> LowerChars[CHOOSE i \in 1..26 : UpperChars[i] = c]]

WordChars ==
  {UpperChars[i] : i \in 1..26} \cup {LowerChars[i] : i \in 1..26} \cup DigitChars \cup {"_"}

\* str.lower() on one character
lower_char(c) == IF c \in DOMAIN UpperToLower THEN UpperToLower[c] ELSE c

\* str.lower()
lower(s) == [i \in 1..Len(s) |-> lower_char(s[i])]

\* \w of the re module
IsWordChar(c) == c \in WordChars

\* \s of the re module, and the characters str.strip() removes
IsSpace(c) == c \in {" ", "\t", "\n", "\r", "\f"}

\* str.rstrip()
rstrip(s) ==
  IF \A i \in 1..Len(s) : IsSpace(s[i])
  THEN << >>
  ELSE SubSeq(s, 1, Len(s) - CHOOSE k \in 0..(Len(s) - 1) :
                                /\ ~IsSpace(s[Len(s) - k])
                                /\ \A j \in (Len(s) - k + 1)..Len(s) : IsSpace(s[j]))

\* str.lstrip()
lstrip(s) ==
  IF \A i \in 1..Len(s) : IsSpace(s[i])
  THEN << >>
  ELSE SubSeq(s, CHOOSE i \in 1..Len(s) :
                    /\ ~IsSpace(s[i])
                    /\ \A j \in 1..(i-1) : IsSpace(s[j]), Len(s))

\* str.strip()
strip(s) == lstrip(rstrip(s))

\* str.rstrip(ch): every trailing occurrence of ch is removed
rstrip_char(s, ch) ==
  IF \A i \in 1..Len(s) : s[i] = ch
  THEN << >>
  ELSE SubSeq(s, 1, Len(s) - CHOOSE k \in 0..(Len(s) - 1) :
                                /\ s[Len(s) - k] # ch
                                /\ \A j \in (Len(s) - k + 1)..Len(s) : s[j] = ch)

\* str.strip(ch)
strip_char(s, ch) ==
  LET r == rstrip_char(s, ch)
  IN  IF r = << >> THEN << >>
      ELSE SubSeq(r, CHOOSE i \in 1..Len(r) :
                        /\ r[i] # ch
                        /\ \A j \in 1..(i-1) : r[j] = ch, Len(r))

\* the literal w occurs in s at position i (case-sensitive)
MatchAt(s, i, w) ==
  /\ i >= 1
  /\ i + Len(w) - 1 <= Len(s)
  /\ \A k \in 1..Len(w) : s[i + k - 1] = w[k]

\* `w in s`
Contains(s, w) ==
  IF Len(w) = 1 THEN \E i \in 1..Len(s) : s[i] = w[1]
  ELSE \E i \in 1..(Len(s) - Len(w) + 1) : s[i] = w[1] /\ MatchAt(s, i, w)

\* \b of the re module between positions i-1 and i of s
WordBoundary(s, i) ==
  LET before == i - 1 >= 1 /\ i - 1 <= Len(s) /\ IsWordChar(s[i - 1])
      after  == i >= 1 /\ i <= Len(s) /\ IsWordChar(s[i])
  IN  before # after

\* the end of the run of word characters that starts at position i of s
WordEnd(s, i) ==
  CHOOSE e \in i..Len(s) :
    /\ \A k \in i..e : IsWordChar(s[k])
    /\ e = Len(s) \/ ~IsWordChar(s[e + 1])

\* re.search(r"\b(w1|w2|...)\b", s, re.IGNORECASE) for lower-case words made
\* of word characters: between two \b a match is a whole run of word
\* characters
SearchWords(s, words) ==
  LET lowered == lower(s)
  IN  \E i \in 1..Len(s) :
        /\ IsWordChar(s[i])
        /\ i = 1 \/ ~IsWordChar(s[i - 1])
        /\ SubSeq(lowered, i, WordEnd(s, i)) \in words

\* re.search(r"\b(w)\b", s, re.IGNORECASE) for a lower-case word w
SearchWord(s, w) == SearchWords(s, {w})

\* str(n) for a natural number n below 10^9
int_to_str(n) ==
  LET digits == CHOOSE k \in 1..9 : n < 10^k /\ (k = 1 \/ n >= 10^(k - 1))
  IN  [i \in 1..digits |->
         <<"0","1","2","3","4","5","6","7","8","9">>[((n \div 10^(digits - i)) % 10) + 1]]

\* the part of s after its last "." (str.split(".")[-1])
after_last_dot(s) ==
  IF \A i \in 1..Len(s) : s[i] # "."
  THEN s
  ELSE SubSeq(s, 1 + CHOOSE i \in 1..Len(s) :
                        /\ s[i] = "."
                        /\ \A j \in (i+1)..Len(s) : s[j] # ".", Len(s))

\* ------------------------------------------------------------------------
\* app/agent/guardrails.py
\* ------------------------------------------------------------------------

\* an operation that returned normally / raised exc with a message:
\* msg is the fixed text of the message, ids the identifiers it names
Returned == [raised |-> FALSE, exc |-> "", msg |-> "", ids |-> {}]

Raise(exc, msg, ids) == [raised |-> TRUE, exc |-> exc, msg |-> msg, ids |-> ids]

\* _READ_ONLY_PATTERN = ^\s*(select|with)\b, IGNORECASE
READ_ONLY_PATTERN_match(query) ==
  LET rest == lstrip(query)
      lowered == lower(SubSeq(rest, 1, IF Len(rest) < 6 THEN Len(rest) ELSE 6))
  IN  \E w \in {<<"s","e","l","e","c","t">>, <<"w","i","t","h">>} :
        /\ MatchAt(lowered, 1, w)
        /\ WordBoundary(rest, Len(w) + 1)

PROHIBITED_KEYWORD_LIST ==
  { <<"i","n","s","e","r","t">>, <<"u","p","d","a","t","e">>, <<"d","e","l","e","t","e">>, <<"d","r","o","p">>, <<"a","l","t","e","r">>, <<"c","r","e","a","t","e">>,
    <<"g","r","a","n","t">>, <<"r","e","v","o","k","e">>, <<"t","r","u","n","c","a","t","e">>, <<"c","o","m","m","e","n","t">>, <<"m","e","r","g","e">>, <<"c","a","l","l">>,
    <<"e","x","e","c">> }

\* _PROHIBITED_KEYWORDS.search(query)
PROHIBITED_KEYWORDS_search(query) == SearchWords(query, PROHIBITED_KEYWORD_LIST)

TABLE_COLUMN_MAP ==
  [ t \in { <<"p","a","t","i","e","n","t","s">>, <<"e","n","c","o","u","n","t","e","r","s">>, <<"c","o","n","d","i","t","i","o","n","s">>, <<"p","r","o","c","e","d","u","r","e","s">>,
            <<"m","e","d","i","c","a","t","i","o","n","s">>, <<"o","b","s","e","r","v","a","t","i","o","n","s">> } |->
      CASE t = <<"p","a","t","i","e","n","t","s">> ->
             { <<"i","d">>, <<"b","i","r","t","h","d","a","t","e">>, <<"d","e","a","t","h","d","a","t","e">>, <<"s","s","n">>, <<"d","r","i","v","e","r","s">>,
               <<"p","a","s","s","p","o","r","t">>, <<"p","r","e","f","i","x">>, <<"f","i","r","s","t">>, <<"l","a","s","t">>, <<"s","u","f","f","i","x">>,
               <<"m","a","i","d","e","n">>, <<"m","a","r","i","t","a","l">>, <<"r","a","c","e">>, <<"e","t","h","n","i","c","i","t","y">>, <<"g","e","n","d","e","r">>,
               <<"b","i","r","t","h","p","l","a","c","e">>, <<"a","d","d","r","e","s","s">> }
        [] t = <<"e","n","c","o","u","n","t","e","r","s">> ->
             { <<"i","d">>, <<"d","a","t","e">>, <<"p","a","t","i","e","n","t">>, <<"c","o","d","e">>, <<"d","e","s","c","r","i","p","t","i","o","n">>,
               <<"r","e","a","s","o","n","c","o","d","e">>, <<"r","e","a","s","o","n","d","e","s","c","r","i","p","t","i","o","n">> }
        [] t = <<"c","o","n","d","i","t","i","o","n","s">> ->
             { <<"s","t","a","r","t">>, <<"s","t","o","p">>, <<"p","a","t","i","e","n","t">>, <<"e","n","c","o","u","n","t","e","r">>, <<"c","o","d","e">>,
               <<"d","e","s","c","r","i","p","t","i","o","n">> }
        [] t = <<"p","r","o","c","e","d","u","r","e","s">> ->
             { <<"d","a","t","e">>, <<"p","a","t","i","e","n","t">>, <<"e","n","c","o","u","n","t","e","r">>, <<"c","o","d","e">>,
               <<"d","e","s","c","r","i","p","t","i","o","n">>, <<"r","e","a","s","o","n","c","o","d","e">>, <<"r","e","a","s","o","n","d","e","s","c","r","i","p","t","i","o","n">> }
        [] t = <<"m","e","d","i","c","a","t","i","o","n","s">> ->
             { <<"s","t","a","r","t">>, <<"s","t","o","p">>, <<"p","a","t","i","e","n","t">>, <<"e","n","c","o","u","n","t","e","r">>, <<"c","o","d","e">>,
               <<"d","e","s","c","r","i","p","t","i","o","n">>, <<"r","e","a","s","o","n","c","o","d","e">>, <<"r","e","a","s","o","n","d","e","s","c","r","i","p","t","i","o","n">> }
        [] t = <<"o","b","s","e","r","v","a","t","i","o","n","s">> ->
             { <<"d","a","t","e">>, <<"p","a","t","i","e","n","t">>, <<"e","n","c","o","u","n","t","e","r">>, <<"c","o","d","e">>,
               <<"d","e","s","c","r","i","p","t","i","o","n">>, <<"v","a","l","u","e">>, <<"u","n","i","t","s">> } ]

ALLOWED_COLUMN_NAMES == UNION { TABLE_COLUMN_MAP[t] : t \in DOMAIN TABLE_COLUMN_MAP }

ALLOWED_TABLE_NAMES == DOMAIN TABLE_COLUMN_MAP

PROMPT_PROHIBITED_KEYWORDS ==
  { <<"d","r","o","p">>, <<"d","e","l","e","t","e">>, <<"t","r","u","n","c","a","t","e">>, <<"a","l","t","e","r">>, <<"u","p","d","a","t","e">>, <<"i","n","s","e","r","t">>,
    <<"c","r","e","a","t","e">>, <<"g","r","a","n","t">>, <<"r","e","v","o","k","e">> }

\* ensure_read_only without the check for a second statement
ensure_read_only_unsplit(query) ==
  IF ~READ_ONLY_PATTERN_match(query)
  THEN Raise("GuardrailViolation", "Only SELECT/CTE queries are permitted.", {})
  ELSE IF PROHIBITED_KEYWORDS_search(query)
  THEN Raise("GuardrailViolation", "Detected prohibited SQL keywords (DML/DDL).", {})
  ELSE Returned

\* ensure_read_only(query): the three checks in the order of the source
ensure_read_only(query) ==
  IF ~READ_ONLY_PATTERN_match(query)
  THEN Raise("GuardrailViolation", "Only SELECT/CTE queries are permitted.", {})
  ELSE IF PROHIBITED_KEYWORDS_search(query)
  THEN Raise("GuardrailViolation", "Detected prohibited SQL keywords (DML/DDL).", {})
  ELSE IF Contains(rstrip_char(strip(query), ";"), <<";">>)
  THEN Raise("GuardrailViolation", "Multiple SQL statements are not allowed.", {})
  ELSE Returned

\* What sqlglot's parse_one(query, read="postgres") gives the guardrails:
\* either a parse error, or a tree of which the guardrails read
\*   tables  : the exp.Table nodes' names, as find_all(exp.Table) yields them
\*   selects : the exp.Select nodes, each with the aliases of its
\*             projection list (<< >> for an expression without alias)
\*   columns : the exp.Column nodes as find_all(exp.Column) yields them,
\*             each with is_star, name and select = the index in selects of
\*             find_ancestor(exp.Select), 0 when there is none
ParseError == [ok |-> FALSE, tables |-> << >>, selects |-> << >>, columns |-> << >>]

\* the table name compared as it is written, without lower-casing
normalized_table_as_written(name) ==
  LET normalized == strip_char(name, "\"")
  IN  IF Contains(normalized, <<".">>) THEN after_last_dot(normalized) ELSE normalized

\* the table name as ensure_known_tables normalises it
normalized_table(name) ==
  LET normalized == lower(strip_char(name, "\""))
  IN  IF Contains(normalized, <<".">>) THEN after_last_dot(normalized) ELSE normalized

\* ensure_known_tables(query), tree = parse_one(query)
ensure_known_tables(query, tree) ==
  IF ~tree.ok THEN Returned
  ELSE LET unknown == { tree.tables[i] : i \in { j \in DOMAIN tree.tables :
                            /\ tree.tables[j] # << >>
                            /\ normalized_table(tree.tables[j]) \notin ALLOWED_TABLE_NAMES } }
       IN  IF unknown # {}
           THEN Raise("GuardrailViolation", "Unknown table(s)", unknown)
           ELSE Returned

\* _collect_aliases(select); select = 0 stands for None
collect_aliases(tree, select) ==
  IF select = 0 THEN {}
  ELSE { lower(tree.selects[select].aliases[i]) :
           i \in { j \in DOMAIN tree.selects[select].aliases :
                     tree.selects[select].aliases[j] # << >> } }

\* _validate_column_reference(column, alias_names)
validate_column_reference(column, alias_names) ==
  IF column.is_star THEN Returned
  ELSE IF column.name = << >> THEN Returned
  ELSE LET normalized == lower(strip_char(column.name, "\""))
       IN  IF normalized \in alias_names THEN Returned
           ELSE IF normalized \notin ALLOWED_COLUMN_NAMES
           THEN Raise("GuardrailViolation", "Unknown column", {normalized})
           ELSE Returned

\* ensure_known_columns(query), tree = parse_one(query): the first column
\* reference that raises ends the loop
ensure_known_columns(query, tree) ==
  IF ~tree.ok THEN Returned
  ELSE LET checked == [i \in DOMAIN tree.columns |->
                         validate_column_reference(
                           tree.columns[i],
                           collect_aliases(tree, tree.columns[i].select))]
           bad == { i \in DOMAIN tree.columns : checked[i].raised }
       IN  IF bad = {} THEN Returned
           ELSE checked[CHOOSE i \in bad : \A j \in bad : i <= j]

\* SqlValidationResult, or the exception raised instead
Validation(query, enforced_limit) ==
  [raised |-> FALSE, exc |-> "", msg |-> "", ids |-> {},
   query |-> query, enforced_limit |-> enforced_limit]

ValidationRaised(e) ==
  [raised |-> TRUE, exc |-> e.exc, msg |-> e.msg, ids |-> e.ids,
   query |-> << >>, enforced_limit |-> FALSE]

\* enforce_limit(query, limit)
enforce_limit(query, limit) ==
  IF SearchWord(query, <<"l","i","m","i","t">>)
  THEN Validation(query, FALSE)
  ELSE LET sanitized == rstrip_char(rstrip(query), ";")
       IN  Validation(sanitized \o <<"\n","L","I","M","I","T"," ">> \o int_to_str(limit), TRUE)

\* validate_sql with the tables checked before the shape of the statement
validate_sql_tables_first(query, tree, limit) ==
  LET r1 == ensure_read_only(query)
      r2 == ensure_known_tables(query, tree)
      r3 == ensure_known_columns(query, tree)
  IN  IF r2.raised THEN ValidationRaised(r2)
      ELSE IF r1.raised THEN ValidationRaised(r1)
      ELSE IF r3.raised THEN ValidationRaised(r3)
      ELSE enforce_limit(query, limit)

\* validate_sql(query, limit=limit), tree = parse_one(query)
validate_sql(query, tree, limit) ==
  LET r1 == ensure_read_only(query)
      r2 == ensure_known_tables(query, tree)
      r3 == ensure_known_columns(query, tree)
  IN  IF r1.raised THEN ValidationRaised(r1)
      ELSE IF r2.raised THEN ValidationRaised(r2)
      ELSE IF r3.raised THEN ValidationRaised(r3)
      ELSE enforce_limit(query, limit)

\* ensure_safe_prompt with the keywords matched as whole words
ensure_safe_prompt_whole_word(prompt) ==
  IF SearchWords(prompt, PROMPT_PROHIBITED_KEYWORDS)
  THEN Raise("GuardrailViolation",
             "Detected potentially destructive instruction in the prompt.", {})
  ELSE Returned

\* ensure_safe_prompt(prompt)
ensure_safe_prompt(prompt) ==
  IF LET lowered == lower(prompt)
     IN  \E keyword \in PROMPT_PROHIBITED_KEYWORDS : Contains(lowered, keyword)
  THEN Raise("GuardrailViolation",
             "Detected potentially destructive instruction in the prompt.", {})
  ELSE Returned

\* ensure_required_literals with the membership test inverted
ensure_required_literals_inverted(query, literals) ==
  LET lowered == lower(query)
      missing == { i \in DOMAIN literals : Contains(lowered, lower(literals[i])) }
  IN  IF missing # {}
      THEN Raise("GuardrailViolation", "Generated SQL omitted required values",
                 { literals[i] : i \in missing })
      ELSE Returned

\* ensure_required_literals(query, literals)
ensure_required_literals(query, literals) ==
  LET lowered == lower(query)
      missing == { i \in DOMAIN literals : ~Contains(lowered, lower(literals[i])) }
  IN  IF missing # {}
      THEN Raise("GuardrailViolation", "Generated SQL omitted required values",
                 { literals[i] : i \in missing })
      ELSE Returned

\* ------------------------------------------------------------------------
\* SQL texts: the inputs of the guardrails and the replies of the generator
\* ------------------------------------------------------------------------

\* A SQL text is built from pieces, so that its characters and what it
\* references agree by construction:
\*   <lead><head> <proj> FROM <source><cond><order><limit><tail>
\* Each piece gives its characters and the nodes it contributes to the parse
\* tree; scope 1 is the outer SELECT, scope 2 a SELECT of the piece itself.

Col(name, scope) == [is_star |-> FALSE, name |-> name, scope |-> scope]

StarCol(scope) == [is_star |-> TRUE, name |-> <<"*">>, scope |-> scope]

Leads == << << >>, <<" ","\n">> >>

Heads ==
  << [text |-> <<"S","E","L","E","C","T">>, tables |-> << >>, selects |-> << >>, columns |-> << >>],
     [text |-> <<"s","e","l","e","c","t">>, tables |-> << >>, selects |-> << >>, columns |-> << >>],
     [text |-> <<"D","E","L","E","T","E">>, tables |-> << >>, selects |-> << >>, columns |-> << >>],
     [text |-> <<"S","E","L","E","C","T","E","D">>, tables |-> << >>, selects |-> << >>, columns |-> << >>],
     [text |-> <<"W","I","T","H"," ","t"," ","A","S"," ","(","S","E","L","E","C","T"," ","i","d"," ","F","R","O","M"," ","p","a","t","i","e","n","t","s",")"," ","S","E","L","E","C","T">>,
      tables |-> << <<"p","a","t","i","e","n","t","s">> >>,
      selects |-> << [aliases |-> << << >> >>] >>,
      columns |-> << Col(<<"i","d">>, 2) >>] >>

Projs ==
  << [text |-> <<"i","d">>, aliases |-> << << >> >>, columns |-> << Col(<<"i","d">>, 1) >>],
     [text |-> <<"p","a","t","i","e","n","t","s",".","*">>, aliases |-> << << >> >>, columns |-> << StarCol(1) >>],
     [text |-> <<"f","a","v","o","r","i","t","e","_","c","o","l","o","r">>, aliases |-> << << >> >>,
      columns |-> << Col(<<"f","a","v","o","r","i","t","e","_","c","o","l","o","r">>, 1) >>],
     [text |-> <<"I","D",","," ","f","i","r","s","t"," ","A","S"," ","F","n","a","m","e">>, aliases |-> << << >>, <<"F","n","a","m","e">> >>,
      columns |-> << Col(<<"I","D">>, 1), Col(<<"f","i","r","s","t">>, 1) >>],
     [text |-> <<"f","n","a","m","e">>, aliases |-> << << >> >>, columns |-> << Col(<<"f","n","a","m","e">>, 1) >>],
     [text |-> <<"u","p","d","a","t","e","d","_","a","t">>, aliases |-> << << >> >>,
      columns |-> << Col(<<"u","p","d","a","t","e","d","_","a","t">>, 1) >>] >>

Sources ==
  << [text |-> <<"p","a","t","i","e","n","t","s">>, tables |-> << <<"p","a","t","i","e","n","t","s">> >>,
      selects |-> << >>, columns |-> << >>],
     [text |-> <<"h","e","a","l","t","h","c","a","r","e","_","d","e","m","o",".","P","a","t","i","e","n","t","s">>, tables |-> << <<"P","a","t","i","e","n","t","s">> >>,
      selects |-> << >>, columns |-> << >>],
     [text |-> <<"p","a","t","i","e","n","t","z">>, tables |-> << <<"p","a","t","i","e","n","t","z">> >>,
      selects |-> << >>, columns |-> << >>],
     [text |-> <<"(","S","E","L","E","C","T"," ","f","i","r","s","t"," ","A","S"," ","f","n","a","m","e"," ","F","R","O","M"," ","p","a","t","i","e","n","t","s",")"," ","s">>,
      tables |-> << <<"p","a","t","i","e","n","t","s">> >>,
      selects |-> << [aliases |-> << <<"f","n","a","m","e">> >>] >>,
      columns |-> << Col(<<"f","i","r","s","t">>, 2) >>] >>

Conds ==
  << [text |-> << >>, columns |-> << >>, parses |-> TRUE],
     [text |-> <<" ","W","H","E","R","E"," ","f","i","r","s","t"," ","="," ","'","l","i","m","i","t","'">>, columns |-> << Col(<<"f","i","r","s","t">>, 1) >>,
      parses |-> TRUE],
     [text |-> <<" ","W","H","E","R","E"," ","b","i","r","t","h","d","a","t","e"," ","="," ","'","2","0","2","4","-","0","1","-","0","1","'">>,
      columns |-> << Col(<<"b","i","r","t","h","d","a","t","e">>, 1) >>, parses |-> TRUE],
     [text |-> <<" ","W","H","E","R","E"," ","f","i","r","s","t"," ","="," ","'","d","r","o","p","'">>, columns |-> << Col(<<"f","i","r","s","t">>, 1) >>,
      parses |-> TRUE],
     [text |-> <<" ","W","H","E","R","E"," ","(">>, columns |-> << >>, parses |-> FALSE],
     [text |-> <<" ","W","H","E","R","E"," ","i","d"," ","="," ","'","1","d","6","0","4","d","a","9","-","9","a","8","1","-","4","b","a","9","-","8","0","c","2","-","d","e","3","3","7","5","d","5","9","b","4","0","'"," ","A","N","D"," ","b","i","r","t","h","d","a","t","e"," ",">"," ","'","2","0","2","4","-","0","1","-","0","1","'">>,
      columns |-> << Col(<<"i","d">>, 1), Col(<<"b","i","r","t","h","d","a","t","e">>, 1) >>, parses |-> TRUE] >>

Orders ==
  << [text |-> << >>, columns |-> << >>],
     [text |-> <<" ","O","R","D","E","R"," ","B","Y"," ","f","n","a","m","e">>, columns |-> << Col(<<"f","n","a","m","e">>, 1) >>] >>

Limits == << << >>, <<" ","L","I","M","I","T"," ","5">>, <<" ","l","i","m","i","t"," ","5">> >>

Tails ==
  << << >>, <<";">>, <<";",";">>, <<" ",";"," ">>, <<";"," ",";">>, <<";"," ","D","R","O","P"," ","T","A","B","L","E"," ","p","a","t","i","e","n","t","s">>,
     <<";","S","E","L","E","C","T"," ","1">>, <<" "," ">> >>

\* the columns of a piece, its own scope 2 moved to index `inner` of selects
Scoped(columns, inner) ==
  [i \in DOMAIN columns |->
     [is_star |-> columns[i].is_star, name |-> columns[i].name,
      select |-> IF columns[i].scope = 1 THEN 1 ELSE inner]]

\* the text of the pieces, what it references, and whether sqlglot parses it
MakeSql(lead, head, proj, source, cond, order, limit, tail) ==
  [text |-> lead \o head.text \o <<" ">> \o proj.text \o <<" ","F","R","O","M"," ">> \o source.text
              \o cond.text \o order.text \o limit \o tail,
   refs |-> [ok |-> TRUE,
             tables |-> source.tables \o head.tables,
             selects |-> << [aliases |-> proj.aliases] >> \o head.selects \o source.selects,
             columns |-> Scoped(proj.columns, 1) \o Scoped(cond.columns, 1)
                           \o Scoped(order.columns, 1) \o Scoped(head.columns, 2)
                           \o Scoped(source.columns, 2 + Len(head.selects))],
   parses |-> cond.parses]

\* parse_one(query, read="postgres") of sqlglot, for the texts above
parse_one(sql) == IF sql.parses THEN sql.refs ELSE ParseError

\* the text with `text` in place of sql.text: appending a LIMIT clause adds
\* no table and no column reference
WithText(sql, text) == [text |-> text, refs |-> sql.refs, parses |-> sql.parses]

\* ------------------------------------------------------------------------
\* app/agent/validator.py, app/agent/sql_executor.py, app/agent/prompts.py
\* ------------------------------------------------------------------------

\* ValidationSummary.message: the prefix summarize_exception puts before the
\* exception's own text, that text, and the identifiers it names
NoSummary == [prefix |-> "", msg |-> "", ids |-> {}]

\* summarize_exception(exc)
summarize_exception(exc) ==
  CASE exc.exc = "ValidationError" -> [prefix |-> "", msg |-> exc.msg, ids |-> exc.ids]
    [] exc.exc = "GuardrailViolation" ->
         [prefix |-> "Guardrail violation: ", msg |-> exc.msg, ids |-> exc.ids]
    [] exc.exc = "SQLAlchemyError" ->
         [prefix |-> "Database error: ", msg |-> exc.msg, ids |-> exc.ids]
    [] OTHER -> [prefix |-> "", msg |-> exc.msg, ids |-> exc.ids]

\* validate_result accepting an empty result set
validate_result_lenient(rows) == Returned

\* validate_result(rows); rows is the number of rows
validate_result(rows) ==
  IF rows = 0
  THEN Raise("ValidationError",
             "Query returned no rows; relax filters or adjust the time window.", {})
  ELSE Returned

\* what the relational engine does with a text handed to run_select
RunSelectOutcomes == {"rows", "empty", "error"}

\* execute_query(query): validate_sql, then run_select on validation.query.
\* called is whether run_select was invoked and arg the text it was given;
\* outcome is what the engine does if it is invoked
execute_query(sql, limit, outcome) ==
  LET validation == validate_sql(sql.text, parse_one(sql), limit)
  IN  IF validation.raised
      THEN [raised |-> TRUE, exc |-> validation.exc, msg |-> validation.msg,
            ids |-> validation.ids, called |-> FALSE, arg |-> << >>,
            rows |-> 0, sql |-> << >>, limit_enforced |-> FALSE]
      ELSE IF outcome = "error"
      THEN [raised |-> TRUE, exc |-> "SQLAlchemyError", msg |-> "backend error",
            ids |-> {}, called |-> TRUE, arg |-> validation.query,
            rows |-> 0, sql |-> << >>, limit_enforced |-> FALSE]
      ELSE [raised |-> FALSE, exc |-> "", msg |-> "", ids |-> {},
            called |-> TRUE, arg |-> validation.query,
            rows |-> IF outcome = "rows" THEN 1 ELSE 0,
            sql |-> validation.query, limit_enforced |-> validation.enforced_limit]

\* build_sql_prompt(user_prompt, context_chunks, limit=limit): the parts the
\* f-string puts into the prompt
build_sql_prompt(user_prompt, context_chunks, limit) ==
  [kind |-> "generate", user_prompt |-> user_prompt, context |-> context_chunks,
   previous_sql |-> << >>, error_summary |-> NoSummary, limit |-> limit]

\* build_sql_repair_prompt(...)
build_sql_repair_prompt(user_prompt, context_chunks, previous_sql, error_summary, limit) ==
  [kind |-> "repair", user_prompt |-> user_prompt, context |-> context_chunks,
   previous_sql |-> strip(previous_sql), error_summary |-> error_summary,
   limit |-> limit]

\* ------------------------------------------------------------------------
\* app/agent/planner.py, app/agent/intent_classifier.py
\* ------------------------------------------------------------------------

IntentMembers == {"SQL", "ETL", "CHART"}

CHART_KEYWORDS ==
  { <<"c","h","a","r","t">>, <<"p","l","o","t">>, <<"g","r","a","p","h">>, <<"v","i","s","u","a","l","i","z","e">>, <<"v","i","s","u","a","l","i","s","e">>,
    <<"v","i","s","u","a","l","i","z","a","t","i","o","n">>, <<"d","a","s","h","b","o","a","r","d">>, <<"p","l","o","t","l","y">> }

ETL_KEYWORDS ==
  { <<"l","o","a","d">>, <<"i","n","g","e","s","t">>, <<"t","r","a","n","s","f","o","r","m">>, <<"c","l","e","a","n","u","p">>, <<"c","l","e","a","n">>, <<"n","o","r","m","a","l","i","z","e">>,
    <<"s","t","a","n","d","a","r","d","i","z","e">>, <<"a","g","g","r","e","g","a","t","e">>, <<"g","r","o","u","p">>, <<"g","r","o","u","p","b","y">>, <<"s","u","m","m","a","r","i","z","e">>,
    <<"e","n","r","i","c","h">>, <<"c","s","v">>, <<"e","x","c","e","l">>, <<"x","l","s","x">>, <<"p","a","r","q","u","e","t">>, <<"d","a","t","a","s","e","t">>,
    <<"p","a","n","d","a","s">>, <<"j","s","o","n">>, <<"j","s","o","n","l">>, <<"s","3">>, <<"u","p","l","o","a","d">>, <<"p","i","p","e","l","i","n","e">>, <<"e","t","l">>,
    <<"s","t","a","g","e">>, <<"p","r","e","p","a","r","e">> }

\* plan_intent(prompt).intent
plan_intent(prompt) ==
  LET lowered == lower(prompt)
  IN  IF \E word \in CHART_KEYWORDS : Contains(lowered, word) THEN "CHART"
      ELSE IF \E word \in ETL_KEYWORDS : Contains(lowered, word) THEN "ETL"
      ELSE "SQL"

LowerToUpper ==
  [c \in {LowerChars[i] : i \in 1..26} |-> UpperChars[CHOOSE i \in 1..26 : LowerChars[i] = c]]

\* str.upper()
upper(s) ==
  [i \in 1..Len(s) |-> IF s[i] \in DOMAIN LowerToUpper THEN LowerToUpper[s[i]] ELSE s[i]]

\* what the classifier's model call does: a reply text, an LLMError, or any
\* other exception
ClassifierReplies ==
  { [raised |-> "", text |-> <<"S","Q","L">>], [raised |-> "", text |-> <<"e","t","l">>],
    [raised |-> "", text |-> <<"F","O","L","L","O","W","U","P">>], [raised |-> "", text |-> <<"C","H","A","R","T">>],
    [raised |-> "LLMError", text |-> << >>], [raised |-> "Exception", text |-> << >>] }

\* the classification with a failure of the classifier taken for FOLLOWUP
classify_intent_sticky(reply) ==
  IF reply.raised # "" THEN [intent |-> "", reuse_last |-> TRUE]
  ELSE LET label == upper(strip(reply.text))
       IN  IF label \notin { <<"S","Q","L">>, <<"E","T","L">>, <<"F","O","L","L","O","W","U","P">> }
           THEN [intent |-> "", reuse_last |-> TRUE]
           ELSE IF label = <<"F","O","L","L","O","W","U","P">> THEN [intent |-> "", reuse_last |-> TRUE]
           ELSE [intent |-> IF label = <<"S","Q","L">> THEN "SQL" ELSE "ETL", reuse_last |-> FALSE]

\* AgentService._classify_intent over IntentClassifier.classify:
\* (classified intent or "" for None, reuse_last)
classify_intent(reply) ==
  IF reply.raised # "" THEN [intent |-> "", reuse_last |-> FALSE]
  ELSE LET label == upper(strip(reply.text))
       IN  IF label \notin { <<"S","Q","L">>, <<"E","T","L">>, <<"F","O","L","L","O","W","U","P">> }
           THEN [intent |-> "", reuse_last |-> FALSE]
           ELSE IF label = <<"F","O","L","L","O","W","U","P">> THEN [intent |-> "", reuse_last |-> TRUE]
           ELSE [intent |-> IF label = <<"S","Q","L">> THEN "SQL" ELSE "ETL", reuse_last |-> FALSE]

\* the routing with the keyword heuristic consulted after FOLLOWUP too
active_intent_of_heuristic(classified, last_intent_name, prompt) ==
  IF classified.intent # "" /\ ~classified.reuse_last THEN classified.intent
  ELSE IF last_intent_name \in IntentMembers THEN last_intent_name
  ELSE plan_intent(prompt)

\* the routing of handle_query: the intent served
active_intent_of(classified, last_intent_name, prompt) ==
  IF classified.reuse_last
  THEN IF last_intent_name \in IntentMembers THEN last_intent_name ELSE "SQL"
  ELSE IF classified.intent # "" THEN classified.intent
  ELSE IF last_intent_name \in IntentMembers THEN last_intent_name
  ELSE plan_intent(prompt)

\* ------------------------------------------------------------------------
\* app/agent/conversation_store.py, app/core/cache.py
\* ------------------------------------------------------------------------

MAX_TURNS_STORED == 40

UserTurn(prompt) ==
  [role |-> "user", prompt |-> prompt, intent |-> "", sql |-> << >>,
   row_count |-> 0, errors |-> << >>]

AgentTurn(intent, sql, row_count, errors) ==
  [role |-> "agent", prompt |-> << >>, intent |-> intent, sql |-> sql,
   row_count |-> row_count, errors |-> errors]

\* the stored list left as it was
append_json_list_discarding(current, item, max_items) == current

\* append_json_list(key, item, max_items=max_items) on the stored list
append_json_list(current, item, max_items) ==
  LET appended == Append(current, item)
  IN  IF Len(appended) > max_items
      THEN SubSeq(appended, Len(appended) - max_items + 1, Len(appended))
      ELSE appended

\* ------------------------------------------------------------------------
\* app/agent/service.py: helpers of the query path
\* ------------------------------------------------------------------------

\* re.fullmatch of \d{4}-\d{2}-\d{2} at position i of s
DateAt(s, i) ==
  /\ i + 9 <= Len(s)
  /\ \A k \in {0, 1, 2, 3, 5, 6, 8, 9} : s[i + k] \in DigitChars
  /\ s[i + 4] = "-"
  /\ s[i + 7] = "-"

\* [0-9a-f]{8}-[0-9a-f]{4}-[0-9a-f]{4}-[0-9a-f]{4}-[0-9a-f]{12}, IGNORECASE,
\* at position i of s
UuidAt(s, i) ==
  /\ i + 35 <= Len(s)
  /\ \A k \in 0..35 :
       IF k \in {8, 13, 18, 23}
       THEN s[i + k] = "-"
       ELSE lower_char(s[i + k]) \in HexChars

\* re.findall: the non-overlapping matches of length n from position i on,
\* leftmost first
RECURSIVE findall(_, _, _, _)
findall(At(_, _), n, s, i) ==
  IF i > Len(s) THEN << >>
  ELSE IF At(s, i) THEN <<SubSeq(s, i, i + n - 1)>> \o findall(At, n, s, i + n)
  ELSE findall(At, n, s, i + 1)

\* _extract_required_literals(prompt)
extract_required_literals(prompt) ==
  findall(DateAt, 10, prompt, 1) \o findall(UuidAt, 36, prompt, 1)

\* _build_history_prompt(history): one line per turn of the last four
build_history_prompt(history) ==
  LET relevant == SubSeq(history, IF Len(history) > 4 THEN Len(history) - 3 ELSE 1,
                         Len(history))
  IN  [i \in DOMAIN relevant |->
         IF relevant[i].role = "user"
         THEN [who |-> "User", intent |-> "", text |-> relevant[i].prompt, rows |-> 0]
         ELSE [who |-> "Agent", intent |-> relevant[i].intent, text |-> << >>,
               rows |-> relevant[i].row_count]]

\* _augment_prompt_with_history(prompt, history)
augment_prompt_with_history(prompt, history) ==
  [history_block |-> build_history_prompt(history), prompt |-> prompt]

\* AgentExecutionError carrying the history as it was before the last append
AgentExecutionErrorStale(summary, attempts, errors) ==
  [kind |-> "AgentExecutionError", message |-> summary, attempts |-> attempts,
   repaired |-> FALSE, errors |-> SubSeq(errors, 1, Len(errors) - 1), sql |-> << >>,
   rows |-> 0, limit_enforced |-> FALSE]

\* AgentExecutionError(message, attempts=attempts, errors=errors)
AgentExecutionError(summary, attempts, errors) ==
  [kind |-> "AgentExecutionError", message |-> summary, attempts |-> attempts,
   repaired |-> FALSE, errors |-> errors, sql |-> << >>, rows |-> 0,
   limit_enforced |-> FALSE]

\* an exception that leaves handle_query as it was raised
Propagated(exc) ==
  [kind |-> exc, message |-> NoSummary, attempts |-> 0, repaired |-> FALSE,
   errors |-> << >>, sql |-> << >>, rows |-> 0, limit_enforced |-> FALSE]

\* SQLAgentResponse with repaired set whenever an attempt was made
SQLAgentResponseEager(sql, rows, limit_enforced, attempts, errors) ==
  [kind |-> "SQLAgentResponse", message |-> NoSummary, attempts |-> attempts,
   repaired |-> attempts >= 1, errors |-> errors, sql |-> sql, rows |-> rows,
   limit_enforced |-> limit_enforced]

\* SQLAgentResponse(...)
SQLAgentResponse(sql, rows, limit_enforced, attempts, errors) ==
  [kind |-> "SQLAgentResponse", message |-> NoSummary, attempts |-> attempts,
   repaired |-> attempts > 1, errors |-> errors, sql |-> sql, rows |-> rows,
   limit_enforced |-> limit_enforced]

NoResult == Propagated("")

NoSql == [some |-> FALSE, text |-> << >>]

SomeSql(text) == [some |-> TRUE, text |-> text]

\* ------------------------------------------------------------------------
\* app/agent/service.py: helpers of the bulk-load path
\* ------------------------------------------------------------------------

\* the character ` of a Markdown fence, which a TLA+ string cannot hold
Backquote == "backquote"

\* str.startswith, str.endswith
startswith(s, w) == Len(s) >= Len(w) /\ SubSeq(s, 1, Len(w)) = w

endswith(s, w) == Len(s) >= Len(w) /\ SubSeq(s, Len(s) - Len(w) + 1, Len(s)) = w

\* `w in s` of two strings: the empty string is in every string
str_in(w, s) == IF w = << >> THEN TRUE ELSE Contains(s, w)

\* s.split(sep, 1)[1]: ValueError for an empty separator, otherwise what
\* follows the first occurrence of sep
split_once_second(s, sep) ==
  IF sep = << >>
  THEN [raised |-> TRUE, exc |-> "ValueError", msg |-> "empty separator", ids |-> {},
        text |-> << >>]
  ELSE IF ~Contains(s, sep)
  THEN [raised |-> TRUE, exc |-> "IndexError", msg |-> "list index out of range",
        ids |-> {}, text |-> << >>]
  ELSE LET first == CHOOSE i \in 1..(Len(s) - Len(sep) + 1) :
                      /\ MatchAt(s, i, sep)
                      /\ \A j \in 1..(i - 1) : ~MatchAt(s, j, sep)
       IN  [raised |-> FALSE, exc |-> "", msg |-> "", ids |-> {},
            text |-> SubSeq(s, first + Len(sep), Len(s))]

\* a JSON string literal without escapes: "..."
IsJsonString(t) ==
  /\ Len(t) >= 2
  /\ t[1] = "\""
  /\ t[Len(t)] = "\""
  /\ \A i \in 2..(Len(t) - 1) : t[i] \notin {"\"", "\\"}

\* a JSON number of digits only
IsJsonNumber(t) == Len(t) >= 1 /\ \A i \in 1..Len(t) : t[i] \in DigitChars

\* str(value) of a JSON scalar
json_scalar_text(t) == IF IsJsonString(t) THEN SubSeq(t, 2, Len(t) - 1) ELSE t

NotJson == [ok |-> FALSE, is_dict |-> FALSE, key |-> << >>, value |-> << >>]

\* the one member of a JSON object with a single string key and a scalar
\* value, `inner` being what stands between the braces
json_member(inner) ==
  IF inner = << >> THEN [ok |-> TRUE, is_dict |-> TRUE, key |-> << >>, value |-> << >>]
  ELSE IF inner[1] # "\"" \/ \A i \in 2..Len(inner) : inner[i] # "\"" THEN NotJson
  ELSE LET close == CHOOSE i \in 2..Len(inner) :
                      inner[i] = "\"" /\ \A j \in 2..(i - 1) : inner[j] # "\""
           rest == lstrip(SubSeq(inner, close + 1, Len(inner)))
           value == IF rest = << >> THEN << >> ELSE strip(SubSeq(rest, 2, Len(rest)))
       IN  IF rest = << >> \/ rest[1] # ":" THEN NotJson
           ELSE IF ~(IsJsonString(value) \/ IsJsonNumber(value)) THEN NotJson
           ELSE [ok |-> TRUE, is_dict |-> TRUE, key |-> SubSeq(inner, 2, close - 1),
                 value |-> json_scalar_text(value)]

\* json.loads(text), for scalars, arrays of one scalar and objects of one member
json_loads(text) ==
  LET t == strip(text)
      inner == IF Len(t) >= 2 THEN strip(SubSeq(t, 2, Len(t) - 1)) ELSE << >>
  IN  IF t = << >> THEN NotJson
      ELSE IF IsJsonString(t) \/ IsJsonNumber(t)
      THEN [ok |-> TRUE, is_dict |-> FALSE, key |-> << >>, value |-> << >>]
      ELSE IF Len(t) >= 2 /\ t[1] = "[" /\ t[Len(t)] = "]"
      THEN IF inner = << >> \/ IsJsonString(inner) \/ IsJsonNumber(inner)
           THEN [ok |-> TRUE, is_dict |-> FALSE, key |-> << >>, value |-> << >>]
           ELSE NotJson
      ELSE IF Len(t) >= 2 /\ t[1] = "{" /\ t[Len(t)] = "}" THEN json_member(inner)
      ELSE NotJson

\* SchemaCatalog.table_names of the default catalog
CatalogTableNames ==
  { <<"c","o","n","d","i","t","i","o","n","s">>, <<"e","n","c","o","u","n","t","e","r","s">>, <<"m","e","d","i","c","a","t","i","o","n","s">>, <<"o","b","s","e","r","v","a","t","i","o","n","s">>,
    <<"p","a","t","i","e","n","t","s">>, <<"p","r","o","c","e","d","u","r","e","s">> }

NoDirective == [raised |-> FALSE, exc |-> "", msg |-> "", ids |-> {}, table |-> << >>]

DirectiveError(msg, ids) ==
  [raised |-> TRUE, exc |-> "ValueError", msg |-> msg, ids |-> ids, table |-> << >>]

\* the text after the fence handling of _parse_etl_directive; raised when the
\* split raises
unfenced(payload) ==
  LET cleaned == strip(payload)
      opened == strip(SubSeq(cleaned, 4, Len(cleaned)))
      untagged == IF startswith(lower(opened), <<"j","s","o","n">>)
                  THEN lstrip(SubSeq(opened, 5, Len(opened)))
                  ELSE opened
      closed == IF endswith(untagged, <<Backquote,Backquote,Backquote>>)
                THEN SubSeq(untagged, 1, Len(untagged) - 3)
                ELSE untagged
      second == split_once_second(closed, << >>)
  IN  IF ~startswith(cleaned, <<Backquote,Backquote,Backquote>>)
      THEN [raised |-> FALSE, exc |-> "", msg |-> "", ids |-> {}, text |-> cleaned]
      ELSE IF ~str_in(<< >>, closed)
      THEN [raised |-> FALSE, exc |-> "", msg |-> "", ids |-> {}, text |-> closed]
      ELSE IF second.raised THEN second
      ELSE [raised |-> FALSE, exc |-> "", msg |-> "", ids |-> {}, text |-> strip(second.text)]

\* _parse_etl_directive without the check of the table against the catalog
parse_etl_directive_trusting(payload, table_names) ==
  LET cleaned == unfenced(payload)
      data == json_loads(cleaned.text)
      table == lower(strip(data.value))
  IN  IF cleaned.raised THEN DirectiveError(cleaned.msg, {})
      ELSE IF ~data.ok THEN DirectiveError("ETL directive is not valid JSON", {})
      ELSE IF ~data.is_dict \/ data.key # <<"t","a","b","l","e">>
      THEN DirectiveError("ETL directive must be a JSON object with a 'table' field", {})
      ELSE [raised |-> FALSE, exc |-> "", msg |-> "", ids |-> {}, table |-> table]

\* AgentService._parse_etl_directive(payload, etl_settings=..., catalog=...)
parse_etl_directive(payload, table_names) ==
  LET cleaned == unfenced(payload)
      data == json_loads(cleaned.text)
      table == lower(strip(data.value))
  IN  IF cleaned.raised THEN DirectiveError(cleaned.msg, {})
      ELSE IF ~data.ok THEN DirectiveError("ETL directive is not valid JSON", {})
      ELSE IF ~data.is_dict \/ data.key # <<"t","a","b","l","e">>
      THEN DirectiveError("ETL directive must be a JSON object with a 'table' field", {})
      ELSE IF table # <<"a","l","l">> /\ table \notin table_names
      THEN DirectiveError("Table is not supported. Choose from", {table})
      ELSE [raised |-> FALSE, exc |-> "", msg |-> "", ids |-> {}, table |-> table]

\* AgentService._make_etl_cache_key(prompt, etl_settings): the hashed parts;
\* md5 is taken to be injective
make_etl_cache_key(prompt, pattern, manifest_path, files) ==
  [prompt_hash |-> lower(strip(prompt)),
   dir_hash |-> [pattern |-> pattern, manifest |-> manifest_path, files |-> files]]

PREFERRED_LOAD_ORDER ==
  << <<"p","a","t","i","e","n","t","s">>, <<"e","n","c","o","u","n","t","e","r","s">>, <<"p","r","o","c","e","d","u","r","e","s">>, <<"o","b","s","e","r","v","a","t","i","o","n","s">>,
     <<"m","e","d","i","c","a","t","i","o","n","s">>, <<"c","o","n","d","i","t","i","o","n","s">> >>

\* the tables in the order the pipeline produced them
order_tables_as_given(tables) == tables

order_tables_preferred_only(tables) ==
  LET given == { tables[i] : i \in DOMAIN tables }
      Wanted(t) == t \in given
  IN  SelectSeq(PREFERRED_LOAD_ORDER, Wanted)

\* _order_tables(tables)
order_tables(tables) ==
  LET given == { tables[i] : i \in DOMAIN tables }
      preferred == { PREFERRED_LOAD_ORDER[i] : i \in DOMAIN PREFERRED_LOAD_ORDER }
      Wanted(t) == t \in given
      Other(t) == t \notin preferred
  IN  SelectSeq(PREFERRED_LOAD_ORDER, Wanted) \o SelectSeq(tables, Other)

\* loaded_rows of a table summary: None, or the rows a load returned
NoRows == [some |-> FALSE, rows |-> 0]

SomeRows(n) == [some |-> TRUE, rows |-> n]

\* ETLTableSummary(table=..., row_count=..., loaded_rows=...)
ETLTableSummary(table, row_count, loaded_rows) ==
  [table |-> table, row_count |-> row_count, loaded_rows |-> loaded_rows]

\* ETLAgentResponse(results=..., intent=Intent.ETL, attempts=..., repaired=...,
\* errors=..., context=...)
ETLAgentResponse(results, attempts, repaired, errors, context) ==
  [kind |-> "ETLAgentResponse", results |-> results, attempts |-> attempts,
   repaired |-> repaired, errors |-> errors, context |-> context]

\* _etl_agent_response_to_cache_payload(response)
etl_agent_response_to_cache_payload(response) ==
  [intent |-> "ETL", attempts |-> response.attempts, errors |-> response.errors,
   context |-> response.context,
   results |-> [i \in DOMAIN response.results |->
                  [table |-> response.results[i].table,
                   row_count |-> response.results[i].row_count,
                   loaded_rows |-> response.results[i].loaded_rows]]]

\* _cached_response_to_etl_agent_response(payload)
cached_response_to_etl_agent_response(payload) ==
  ETLAgentResponse(
    [i \in DOMAIN payload.results |->
       ETLTableSummary(payload.results[i].table, payload.results[i].row_count,
                       payload.results[i].loaded_rows)],
    payload.attempts, FALSE, payload.errors, payload.context)

\* build_etl_prompt(user_prompt, context_chunks, error_history=error_history)
build_etl_prompt(user_prompt, context_chunks, error_history) ==
  [kind |-> "etl", user_prompt |-> user_prompt, context |-> context_chunks,
   error_history |-> error_history]

\* an entry of error_history: "Attempt <attempt> <stage>: <summary>", or a
\* note without an attempt number
HistoryEntry(attempt, stage, summary) ==
  [attempt |-> attempt, stage |-> stage, summary |-> summary]

Note(msg, table) ==
  [attempt |-> 0, stage |-> "note",
   summary |-> [prefix |-> "", msg |-> msg, ids |-> {table}]]

\* ------------------------------------------------------------------------
\* State
\* ------------------------------------------------------------------------

VARIABLES
  max_retries,       \* AgentService._max_retries
  history,           \* conversation store: the turns stored for the session
  last_intent,       \* conversation store: the session's last intent, "" if none
  pc,                \* where handle_query is
  prompt,            \* the prompt of the request
  session0,          \* the session's turns and last intent when the request arrived
  request_history,   \* `history` of handle_query, read before the classifier
  active_intent,     \* the intent the request is routed to
  attempt,           \* `attempt` of _handle_sql
  error_messages,    \* `error_messages` of _handle_sql
  last_sql,          \* `last_sql` of _handle_sql
  sql,               \* `sql` of _handle_sql: the generator's reply
  required_literals, \* `required_literals` of _handle_sql
  result,            \* what handle_query returned or raised
  calls,             \* how often each collaborator was invoked for the request
  sent,              \* the last prompt given to the generator, with its attempt
  generated,         \* per attempt, the SQL the generator replied with
  failures,          \* per entry of error_messages, the attempt and the step that failed
  run_select_call,   \* the last invocation of run_select
  classifier_reply,  \* what the classifier's model call did for the request
  g_pc,              \* validate_sql applied to an input: "input", "validated", "revalidated"
  g_sql,             \* the input of validate_sql
  g_limit,           \* the limit argument
  g_res,             \* validate_sql(g_sql, limit=g_limit)
  g_res2,            \* validate_sql of the query g_res returned
  etl_config,        \* the ETL settings and manifest the service runs with
  source_files,      \* name:mtime:size of the files in the raw directory
  cache_responses,   \* cache store: payload under etl:<key>, per key
  cache_errors,      \* cache store: list under etl:<key>:errors, per key
  cache_skips,       \* cache store: list under etl:<key>:skip_tables, per key
  cache_key,         \* `cache_key` of _handle_etl
  error_history,     \* `error_history` of _handle_etl
  skip_tables,       \* `skip_tables` of _handle_etl
  strategy,          \* RepairKnowledge._data: the strategy per table, "" if none
  strategy_file,     \* the strategies in .cache/etl_repair_knowledge.json
  directive_raw,     \* `directive_raw` of _handle_etl: the generator's reply
  directive,         \* `directive` of _handle_etl, as parsed
  pipeline_results,  \* `pipeline_results` of _handle_etl: the tables, in dict order
  tables,            \* `tables` of _handle_etl
  table_index,       \* the position of the loop over tables
  db_rows,           \* `db_rows` of _handle_etl
  loads,             \* the invocations of load_table_from_csv in this attempt
  invocation,        \* how many bulk-load requests the service has handled
  earlier,           \* the outcome of the request before this one
  faults,            \* how many calls to collaborators have failed so far
  loader,            \* a call of load_table_from_csv: its inputs and what it did
  peer_strategy,     \* RepairKnowledge._data of a second AgentService
  appends            \* per concurrent request, where its append_json_list is

svars == <<max_retries, history, last_intent, pc, prompt, session0, request_history,
           active_intent, attempt, error_messages, last_sql, sql, required_literals,
           result, calls, sent, generated, failures, run_select_call,
           classifier_reply>>

gvars == <<g_pc, g_sql, g_limit, g_res, g_res2>>

evars == <<etl_config, source_files, cache_responses, cache_errors, cache_skips,
           cache_key, error_history, skip_tables, strategy, strategy_file,
           directive_raw, directive, pipeline_results, tables, table_index, db_rows,
           loads, invocation, earlier, faults>>

xvars == <<loader, peer_strategy, appends>>

vars == <<max_retries, history, last_intent, pc, prompt, session0, request_history,
          active_intent, attempt, error_messages, last_sql, sql, required_literals,
          result, calls, sent, generated, failures, run_select_call,
          g_pc, g_sql, g_limit, g_res, g_res2,
          etl_config, source_files, cache_responses, cache_errors, cache_skips,
          cache_key, error_history, skip_tables, strategy, strategy_file,
          directive_raw, directive, pipeline_results, tables, table_index, db_rows,
          loads, invocation, earlier, faults, loader, peer_strategy, appends>>

\* default_result_limit of Settings
DefaultResultLimit == 1000

\* a second value of the limit argument
OtherResultLimit == 50

\* how many pieces of an input may differ from SELECT id FROM patients
MaxVariations == 3

\* the largest agent_max_retries explored
MaxRetriesBound == 3

NoValidation == Validation(<< >>, FALSE)

Varied(i) == IF i = 1 THEN 0 ELSE 1

EmptySql == [text |-> << >>, refs |-> ParseError, parses |-> FALSE]

NoCalls ==
  [classifier |-> 0, retriever |-> 0, generator |-> 0, run_select |-> 0,
   pipeline |-> 0, loader |-> 0, mapper |-> 0]

NoPrompt == build_sql_prompt([history_block |-> << >>, prompt |-> << >>], << >>, 0)

NoSent == [attempt |-> 0, prompt |-> NoPrompt, repair |-> FALSE]

NoRunSelect == [attempt |-> 0, arg |-> << >>, raw |-> << >>]

\* the classifier has not been called
NoReply == [raised |-> "not called", text |-> << >>]

\* the prompts of the requests
Prompts ==
  << <<"S","h","o","w"," ","f","i","r","s","t"," ","n","a","m","e","s"," ","f","o","r"," ","p","a","t","i","e","n","t","s",".">>,
     <<"P","a","t","i","e","n","t"," ","1","D","6","0","4","D","A","9","-","9","A","8","1","-","4","B","A","9","-","8","0","C","2","-","D","E","3","3","7","5","D","5","9","B","4","0"," ","b","o","r","n"," ","a","f","t","e","r"," ","2","0","2","4","-","0","1","-","0","1">>,
     <<"L","o","a","d"," ","t","h","e"," ","b","u","n","d","l","e","s">>,
     <<"P","l","o","t"," ","p","a","t","i","e","n","t","s">>,
     <<"D","R","O","P"," ","T","A","B","L","E"," ","p","a","t","i","e","n","t","s",";">>,
     <<"R","e","c","e","n","t","l","y"," ","u","p","d","a","t","e","d"," ","p","a","t","i","e","n","t","s">> >>

\* what the generator's model call does: a SQL text, stripped, or an LLMError
GeneratorReplies ==
  { [raised |-> TRUE, sql |-> EmptySql],
    [raised |-> FALSE,
     sql |-> MakeSql(Leads[1], Heads[1], Projs[1], Sources[1], Conds[1], Orders[1],
                     Limits[2], Tails[1])],
    [raised |-> FALSE,
     sql |-> MakeSql(Leads[1], Heads[1], Projs[3], Sources[1], Conds[1], Orders[1],
                     Limits[1], Tails[1])],
    [raised |-> FALSE,
     sql |-> MakeSql(Leads[1], Heads[1], Projs[1], Sources[1], Conds[2], Orders[1],
                     Limits[1], Tails[1])],
    [raised |-> FALSE,
     sql |-> MakeSql(Leads[1], Heads[1], Projs[1], Sources[1], Conds[6], Orders[1],
                     Limits[1], Tails[2])],
    [raised |-> FALSE,
     sql |-> MakeSql(Leads[1], Heads[3], Projs[3], Sources[3], Conds[1], Orders[1],
                     Limits[1], Tails[6])] }

\* the sessions a request arrives in: a new one, one whose last request was
\* answered by the SQL path, one whose last request was answered by the ETL
\* path
Sessions ==
  << [history |-> << >>, last_intent |-> ""],
     [history |-> << UserTurn(Prompts[1]),
                     AgentTurn("SQL", <<"S","E","L","E","C","T"," ","f","i","r","s","t"," ","F","R","O","M"," ","p","a","t","i","e","n","t","s"," ","L","I","M","I","T"," ","5">>, 1, << >>) >>,
      last_intent |-> "SQL"],
     [history |-> << UserTurn(Prompts[3]), AgentTurn("ETL", << >>, 0, << >>) >>,
      last_intent |-> "ETL"] >>

\* ------------------------------------------------------------------------
\* The bulk-load path: settings, collaborators, the stores
\* ------------------------------------------------------------------------

\* row_count of every dataset the pipeline materializes
DatasetRows == 5

\* how many calls to collaborators (retriever, generator, mapper, pipeline,
\* loader) fail in one behaviour
MaxFaults == 2

\* the ETL settings after resolve_etl_settings: whether a cache client exists,
\* enable_db_load, truncate_before_load, and of the manifest (if any) its
\* path, target.on_conflict and transform.auto_mapping
EtlConfigs ==
  << [cache |-> FALSE, enable_db_load |-> TRUE, truncate_before_load |-> FALSE,
      manifest |-> FALSE, manifest_path |-> "", on_conflict |-> "",
      auto_mapping |-> FALSE, source_pattern |-> "*.json"],
     [cache |-> TRUE, enable_db_load |-> TRUE, truncate_before_load |-> TRUE,
      manifest |-> FALSE, manifest_path |-> "", on_conflict |-> "",
      auto_mapping |-> FALSE, source_pattern |-> "*.json"],
     [cache |-> TRUE, enable_db_load |-> TRUE, truncate_before_load |-> TRUE,
      manifest |-> TRUE, manifest_path |-> "etl/manifest.yaml", on_conflict |-> "upsert",
      auto_mapping |-> TRUE, source_pattern |-> "*.json"],
     [cache |-> TRUE, enable_db_load |-> FALSE, truncate_before_load |-> FALSE,
      manifest |-> FALSE, manifest_path |-> "", on_conflict |-> "",
      auto_mapping |-> FALSE, source_pattern |-> "*.json"] >>

\* name:mtime:size of the files of the raw directory, before and after a
\* file is rewritten
SourceFiles ==
  << <<"bundle.json:1700000000:120">>, <<"bundle.json:1700000600:120">> >>

\* the prompts of the bulk-load requests the service handles, one after the
\* other: two spellings of the same request
EtlPrompts == << <<"L","o","a","d"," ","t","h","e"," ","b","u","n","d","l","e","s">>, <<" ","l","o","a","d"," ","t","h","e"," ","B","U","N","D","L","E","S","\n">> >>

\* what the generator's model call does when asked for a directive: a reply
\* text or an LLMError
EtlGeneratorReplies ==
  { [raised |-> TRUE, text |-> << >>],
    [raised |-> FALSE, text |-> <<"{","\"","t","a","b","l","e","\"",":"," ","\"","a","l","l","\"","}">>],
    [raised |-> FALSE, text |-> <<" ","{","\"","t","a","b","l","e","\"",":"," ","\"","P","a","t","i","e","n","t","s","\"","}","\n">>],
    [raised |-> FALSE, text |-> <<Backquote,Backquote,Backquote,"j","s","o","n","\n","{","\"","t","a","b","l","e","\"",":"," ","\"","a","l","l","\"","}","\n",Backquote,Backquote,Backquote>>],
    [raised |-> FALSE, text |-> <<Backquote,Backquote,Backquote,"\n","{","\"","t","a","b","l","e","\"",":"," ","\"","p","a","t","i","e","n","t","s","\"","}","\n",Backquote,Backquote,Backquote>>],
    [raised |-> FALSE, text |-> <<"a","l","l">>],
    [raised |-> FALSE, text |-> <<"{","\"","t","a","b","l","e","s","\"",":"," ","\"","a","l","l","\"","}">>],
    [raised |-> FALSE, text |-> <<"{","\"","t","a","b","l","e","\"",":"," ","\"","v","i","s","i","t","s","\"","}">>] }

\* what run_pipeline_all does: an ETLError, or one dataset per table, the
\* tables in the order of the dict it returns
PipelineOutcomes ==
  { [raised |-> TRUE, tables |-> << >>],
    [raised |-> FALSE, tables |-> << <<"e","n","c","o","u","n","t","e","r","s">>, <<"p","a","t","i","e","n","t","s">> >>] }

\* what load_table_from_csv does: it returns, or raises DBLoadError with a
\* message of the backend
LoadOutcomes ==
  { [raised |-> FALSE, msg |-> << >>],
    [raised |-> TRUE, msg |-> <<"U","N","I","Q","U","E"," ","c","o","n","s","t","r","a","i","n","t"," ","f","a","i","l","e","d",":"," ","p","a","t","i","e","n","t","s",".","i","d">>],
    [raised |-> TRUE, msg |-> <<"c","o","n","n","e","c","t","i","o","n"," ","r","e","f","u","s","e","d">>] }

\* the cache keys of the requests
EtlCacheKeys ==
  { make_etl_cache_key(EtlPrompts[p], EtlConfigs[c].source_pattern,
                       EtlConfigs[c].manifest_path, SourceFiles[f]) :
      p \in DOMAIN EtlPrompts, c \in DOMAIN EtlConfigs, f \in DOMAIN SourceFiles }

\* get_json(key) returning None
Absent == [present |-> FALSE, value |-> << >>]

Stored(value) == [present |-> TRUE, value |-> value]

\* `cache_key` when there is no cache client
NoCacheKey == [present |-> FALSE, key |-> make_etl_cache_key(<< >>, "", "", << >>)]

\* `cache_key` when there is a cache client
SomeCacheKey(key) == [present |-> TRUE, key |-> key]

\* RepairKnowledge._data with no entry
NoStrategies == [t \in CatalogTableNames |-> ""]

NoOutcome == [ended |-> FALSE, key |-> NoCacheKey.key, result |-> NoResult]

\* the bulk-load path has not been entered
EtlIdle ==
  /\ etl_config = EtlConfigs[1]
  /\ source_files = SourceFiles[1]
  /\ cache_responses = [k \in EtlCacheKeys |-> Absent]
  /\ cache_errors = [k \in EtlCacheKeys |-> Absent]
  /\ cache_skips = [k \in EtlCacheKeys |-> Absent]
  /\ cache_key = NoCacheKey
  /\ error_history = << >>
  /\ skip_tables = {}
  /\ strategy = NoStrategies
  /\ strategy_file = NoStrategies
  /\ directive_raw = << >>
  /\ directive = NoDirective
  /\ pipeline_results = << >>
  /\ tables = << >>
  /\ table_index = 0
  /\ db_rows = << >>
  /\ loads = << >>
  /\ invocation = 0
  /\ earlier = NoOutcome
  /\ faults = 0

\* load_table_from_csv has not been called
NoLoader == [called |-> FALSE]

\* there is no second AgentService, no call of load_table_from_csv under
\* observation and no concurrent request
PeersIdle ==
  /\ loader = NoLoader
  /\ peer_strategy = NoStrategies
  /\ appends = << >>
\* ------------------------------------------------------------------------
\* AgentService.handle_query, the SQL path
\* ------------------------------------------------------------------------

Init ==
  /\ max_retries \in 0..MaxRetriesBound
  /\ \E s \in DOMAIN Sessions :
       /\ history = Sessions[s].history
       /\ last_intent = Sessions[s].last_intent
       /\ session0 = Sessions[s]
  /\ \E p \in DOMAIN Prompts : prompt = Prompts[p]
  /\ pc = "handle_query"
  /\ request_history = << >>
  /\ active_intent = ""
  /\ attempt = 0
  /\ error_messages = << >>
  /\ last_sql = NoSql
  /\ sql = EmptySql
  /\ required_literals = << >>
  /\ result = NoResult
  /\ calls = NoCalls
  /\ sent = NoSent
  /\ generated = << >>
  /\ failures = << >>
  /\ run_select_call = NoRunSelect
  /\ classifier_reply = NoReply
  /\ g_pc = "idle"
  /\ g_sql = EmptySql
  /\ g_limit = DefaultResultLimit
  /\ g_res = NoValidation
  /\ g_res2 = NoValidation
  /\ EtlIdle
  /\ PeersIdle

\* handle_query, to the call of the classifier: ensure_safe_prompt, then the
\* read of the session's history
HandleQuery ==
  /\ pc = "handle_query"
  /\ LET safe == ensure_safe_prompt(prompt)
     IN  IF safe.raised
         THEN /\ result' = Propagated(safe.exc)
              /\ pc' = "raised"
              /\ UNCHANGED request_history
         ELSE /\ request_history' = history
              /\ pc' = "classify"
              /\ UNCHANGED result
  /\ UNCHANGED <<max_retries, history, last_intent, prompt, session0, active_intent,
                 attempt, error_messages, last_sql, sql, required_literals, calls,
                 sent, generated, failures, run_select_call>>
  /\ UNCHANGED classifier_reply
  /\ UNCHANGED gvars
  /\ UNCHANGED xvars
  /\ UNCHANGED evars

\* handle_query, from the classifier to the dispatch, for what the
\* classifier's model call does: _classify_intent, the routing,
\* append_user_turn, and the branch on the active intent
Dispatch(reply) ==
  /\ pc = "classify"
  /\ LET classified == classify_intent(reply)
         active == active_intent_of(classified, last_intent, prompt)
     IN  /\ active_intent' = active
         /\ history' = append_json_list(history, UserTurn(prompt), MAX_TURNS_STORED)
         /\ IF active = "SQL" THEN pc' = "retrieve" /\ UNCHANGED result
            ELSE IF active = "ETL" THEN pc' = "etl" /\ UNCHANGED result
            ELSE pc' = "raised" /\ result' = Propagated("NotImplementedError")
  /\ calls' = [calls EXCEPT !.classifier = @ + 1]
  /\ UNCHANGED <<max_retries, last_intent, prompt, session0, request_history,
                 attempt, error_messages, last_sql, sql, required_literals,
                 sent, generated, failures, run_select_call>>
  /\ UNCHANGED gvars
  /\ UNCHANGED xvars
  /\ UNCHANGED evars

\* handle_query, from the classifier to the dispatch
Route ==
  \E reply \in ClassifierReplies : Dispatch(reply) /\ UNCHANGED classifier_reply

\* the same step with the classifier's reply kept for inspection
RouteObserved ==
  \E reply \in ClassifierReplies : Dispatch(reply) /\ classifier_reply' = reply

\* _handle_sql, to the head of the loop: the retrieval, the locals, and the
\* exit of a loop that has no iteration
Retrieve ==
  /\ pc = "retrieve"
  /\ calls' = [calls EXCEPT !.retriever = @ + 1]
  /\ \E retrieved \in BOOLEAN :
       IF ~retrieved
       THEN /\ result' = Propagated("RetrievalError")
            /\ pc' = "raised"
            /\ UNCHANGED <<attempt, required_literals>>
       ELSE /\ required_literals' = extract_required_literals(prompt)
            /\ IF max_retries >= 1
               THEN /\ attempt' = 1
                    /\ pc' = "generate"
                    /\ UNCHANGED result
               ELSE /\ result' = AgentExecutionError(
                                   [prefix |-> "", msg |-> "Agent failed after SQL retries.",
                                    ids |-> {}], max_retries, << >>)
                    /\ pc' = "raised"
                    /\ UNCHANGED attempt
  /\ UNCHANGED <<max_retries, history, last_intent, prompt, session0, request_history,
                 active_intent, error_messages, last_sql, sql, sent, generated,
                 failures, run_select_call>>
  /\ UNCHANGED classifier_reply
  /\ UNCHANGED gvars
  /\ UNCHANGED xvars
  /\ UNCHANGED evars

\* the repair prompt built from the oldest error summary
sql_prompt_of_oldest_error(k, previous, errors, user_prompt, limit) ==
  IF k = 1 \/ ~previous.some \/ errors = << >>
  THEN build_sql_prompt(user_prompt, <<"context">>, limit)
  ELSE build_sql_repair_prompt(user_prompt, <<"context">>, previous.text,
                               errors[1], limit)

\* the prompt of an attempt of the loop
sql_prompt_of(k, previous, errors, user_prompt, limit) ==
  IF k = 1 \/ ~previous.some \/ errors = << >>
  THEN build_sql_prompt(user_prompt, <<"context">>, limit)
  ELSE build_sql_repair_prompt(user_prompt, <<"context">>, previous.text,
                               errors[Len(errors)], limit)

\* the handlers with a guardrail violation left to propagate to the caller
FailAttemptPropagating(exc, step, previous) ==
  LET summary == summarize_exception(exc)
  IN  IF exc.exc = "GuardrailViolation"
      THEN /\ result' = Propagated("GuardrailViolation")
           /\ pc' = "raised"
           /\ UNCHANGED <<attempt, error_messages, failures, last_sql>>
      ELSE /\ error_messages' = Append(error_messages, summary)
           /\ failures' = Append(failures,
                                 [attempt |-> attempt, step |-> step, exc |-> exc.exc])
           /\ last_sql' = previous
           /\ IF attempt = max_retries
              THEN /\ result' = AgentExecutionError(summary, attempt,
                                                    Append(error_messages, summary))
                   /\ pc' = "raised"
                   /\ UNCHANGED attempt
              ELSE /\ attempt' = attempt + 1
                   /\ pc' = "generate"
                   /\ UNCHANGED result

\* the handler of a failed attempt without its raise on the last attempt: the
\* loop runs out and the error after it is raised
FailAttemptFallingThrough(exc, step, previous) ==
  LET summary == summarize_exception(exc)
  IN  /\ error_messages' = Append(error_messages, summary)
      /\ failures' = Append(failures, [attempt |-> attempt, step |-> step, exc |-> exc.exc])
      /\ last_sql' = previous
      /\ IF attempt = max_retries
         THEN /\ result' = AgentExecutionError(
                             [prefix |-> "", msg |-> "Agent failed after SQL retries.",
                              ids |-> {}],
                             max_retries, Append(error_messages, summary))
              /\ pc' = "raised"
              /\ UNCHANGED attempt
         ELSE /\ attempt' = attempt + 1
              /\ pc' = "generate"
              /\ UNCHANGED result

\* the handler of a failed attempt: the summary is appended, last_sql is set,
\* and the last attempt raises
FailAttempt(exc, step, previous) ==
  LET summary == summarize_exception(exc)
  IN  /\ error_messages' = Append(error_messages, summary)
      /\ failures' = Append(failures, [attempt |-> attempt, step |-> step, exc |-> exc.exc])
      /\ last_sql' = previous
      /\ IF attempt = max_retries
         THEN /\ result' = AgentExecutionError(summary, attempt,
                                               Append(error_messages, summary))
              /\ pc' = "raised"
              /\ UNCHANGED attempt
         ELSE /\ attempt' = attempt + 1
              /\ pc' = "generate"
              /\ UNCHANGED result

\* one attempt of the loop, to the end of the first try block: the prompt,
\* the generator, the literal check
Generate ==
  /\ pc = "generate"
  /\ sent' = [attempt |-> attempt,
              prompt |-> sql_prompt_of(attempt, last_sql, error_messages,
                                       augment_prompt_with_history(
                                         prompt, Append(request_history, UserTurn(prompt))),
                                       DefaultResultLimit),
              repair |-> attempt > 1]
  /\ calls' = [calls EXCEPT !.generator = @ + 1]
  /\ \E reply \in GeneratorReplies :
       LET literal == IF reply.raised \/ required_literals = << >> THEN Returned
                      ELSE ensure_required_literals(reply.sql.text, required_literals)
       IN  /\ generated' = Append(generated,
                                  IF reply.raised THEN NoSql ELSE SomeSql(reply.sql.text))
           /\ IF reply.raised
              THEN /\ FailAttempt(Raise("LLMError", "LLM request failed", {}),
                                  "generate", NoSql)
                   /\ UNCHANGED sql
              ELSE IF literal.raised
              THEN /\ FailAttempt(literal, "literals", NoSql)
                   /\ sql' = reply.sql
              ELSE /\ sql' = reply.sql
                   /\ pc' = "execute"
                   /\ UNCHANGED <<attempt, error_messages, failures, last_sql, result>>
  /\ UNCHANGED <<max_retries, history, last_intent, prompt, session0, request_history,
                 active_intent, required_literals, run_select_call>>
  /\ UNCHANGED classifier_reply
  /\ UNCHANGED gvars
  /\ UNCHANGED xvars
  /\ UNCHANGED evars

\* the rest of the attempt: execute_query, validate_result, and on success the
\* return of _handle_sql and the end of handle_query
Execute ==
  /\ pc = "execute"
  /\ \E outcome \in RunSelectOutcomes :
     \E executed \in {execute_query(sql, DefaultResultLimit, outcome)} :
       LET checked == IF executed.raised THEN executed ELSE validate_result(executed.rows)
       IN  /\ IF executed.called
              THEN /\ calls' = [calls EXCEPT !.run_select = @ + 1]
                   /\ run_select_call' = [attempt |-> attempt, arg |-> executed.arg,
                                          raw |-> sql.text]
              ELSE UNCHANGED <<calls, run_select_call>>
           /\ IF checked.raised
              THEN /\ FailAttempt(checked,
                                  IF ~executed.called THEN "validate_sql"
                                  ELSE IF executed.raised THEN "run_select"
                                  ELSE "validate_result",
                                  SomeSql(sql.text))
                   /\ UNCHANGED <<history, last_intent>>
              ELSE /\ result' = SQLAgentResponse(executed.sql, executed.rows,
                                                 executed.limit_enforced, attempt,
                                                 error_messages)
                   /\ history' = append_json_list(
                                   history,
                                   AgentTurn(active_intent, executed.sql, executed.rows,
                                             error_messages),
                                   MAX_TURNS_STORED)
                   /\ last_intent' = active_intent
                   /\ pc' = "returned"
                   /\ UNCHANGED <<attempt, error_messages, failures, last_sql>>
  /\ UNCHANGED <<max_retries, prompt, session0, request_history, active_intent, sql,
                 required_literals, sent, generated>>
  /\ UNCHANGED classifier_reply
  /\ UNCHANGED gvars
  /\ UNCHANGED xvars
  /\ UNCHANGED evars

Next == HandleQuery \/ Route \/ Retrieve \/ Generate \/ Execute

Spec == Init /\ [][Next]_vars

\* handle_query up to the dispatch, with the classifier's reply kept
RouteNext == HandleQuery \/ RouteObserved

SpecRoute == Init /\ [][RouteNext]_vars

\* ------------------------------------------------------------------------
\* validate_sql as a pure function of its input
\* ------------------------------------------------------------------------

GuardInit ==
  /\ g_pc = "input"
  /\ \E l \in DOMAIN Leads, h \in DOMAIN Heads, p \in DOMAIN Projs,
        s \in DOMAIN Sources, c \in DOMAIN Conds, o \in DOMAIN Orders,
        m \in DOMAIN Limits, t \in DOMAIN Tails, n \in 1..2 :
       /\ Varied(l) + Varied(h) + Varied(p) + Varied(s) + Varied(c) + Varied(o)
            + Varied(m) + Varied(t) + Varied(n) <= MaxVariations
       /\ g_sql = MakeSql(Leads[l], Heads[h], Projs[p], Sources[s], Conds[c],
                          Orders[o], Limits[m], Tails[t])
       /\ g_limit = IF n = 1 THEN DefaultResultLimit ELSE OtherResultLimit
  /\ g_res = NoValidation
  /\ g_res2 = NoValidation
  /\ max_retries = 0
  /\ history = << >>
  /\ last_intent = ""
  /\ session0 = Sessions[1]
  /\ prompt = << >>
  /\ pc = "idle"
  /\ request_history = << >>
  /\ active_intent = ""
  /\ attempt = 0
  /\ error_messages = << >>
  /\ last_sql = NoSql
  /\ sql = EmptySql
  /\ required_literals = << >>
  /\ result = NoResult
  /\ calls = NoCalls
  /\ sent = NoSent
  /\ generated = << >>
  /\ failures = << >>
  /\ run_select_call = NoRunSelect
  /\ classifier_reply = NoReply
  /\ EtlIdle
  /\ PeersIdle

GuardValidate ==
  /\ g_pc = "input"
  /\ g_res' = validate_sql(g_sql.text, parse_one(g_sql), g_limit)
  /\ g_pc' = "validated"
  /\ UNCHANGED <<g_sql, g_limit, g_res2>>
  /\ UNCHANGED svars
  /\ UNCHANGED evars
  /\ UNCHANGED xvars

GuardRevalidate ==
  /\ g_pc = "validated"
  /\ ~g_res.raised
  /\ g_res2' = validate_sql(g_res.query, parse_one(WithText(g_sql, g_res.query)), g_limit)
  /\ g_pc' = "revalidated"
  /\ UNCHANGED <<g_sql, g_limit, g_res>>
  /\ UNCHANGED svars
  /\ UNCHANGED evars
  /\ UNCHANGED xvars

GuardNext == GuardValidate \/ GuardRevalidate

SpecGuard == GuardInit /\ [][GuardNext]_vars

\* ------------------------------------------------------------------------
\* AgentService.handle_query, the bulk-load path (_handle_etl)
\* ------------------------------------------------------------------------

\* the variables of the query path that the bulk-load path leaves alone
sql_locals ==
  <<session0, request_history, active_intent, error_messages, last_sql, sql,
    required_literals, generated, failures, run_select_call,
    classifier_reply>>

\* the cache key of a request
request_key(p, config, files) ==
  make_etl_cache_key(p, config.source_pattern, config.manifest_path, files)

\* upsert preferred whatever the manifest says
prefer_upsert_always(config) == TRUE

\* prefer_upsert of _handle_etl; on_conflict is written in lower case in the
\* manifests of EtlConfigs
prefer_upsert(config) ==
  config.manifest /\ config.on_conflict \in {"upsert", "do_nothing"}

\* no message of a DBLoadError taken for a duplicate key
duplicate_error_never(msg) == FALSE

\* every message of a DBLoadError taken for a duplicate key
duplicate_error_any(msg) == TRUE

\* duplicate_error of _handle_etl, of the message of a DBLoadError
duplicate_error(msg) ==
  LET message_lower == lower(msg)
  IN  \/ Contains(message_lower, <<"d","u","p","l","i","c","a","t","e"," ","k","e","y"," ","v","a","l","u","e"," ","v","i","o","l","a","t","e","s"," ","u","n","i","q","u","e"," ","c","o","n","s","t","r","a","i","n","t">>)
      \/ Contains(message_lower, <<"u","n","i","q","u","e"," ","c","o","n","s","t","r","a","i","n","t"," ","f","a","i","l","e","d">>)
      \/ Contains(message_lower, <<"u","n","i","q","u","e"," ","c","o","n","s","t","r","a","i","n","t">>)

\* LoadRequest(table=..., csv_path=..., truncate_before_load=..., mode=...)
\* with what the call did
LoadCall(table, truncate, mode, outcome) ==
  [table |-> table, truncate_before_load |-> truncate, mode |-> mode,
   raised |-> outcome.raised, msg |-> outcome.msg]

\* an upsert counted by the rows that met no conflict
inserted_rows_without_conflicts(mode) ==
  IF mode = "insert" THEN DatasetRows ELSE DatasetRows - 1

\* inserted_rows of a LoadResult: int(df.shape[0]) after an insert and
\* len(records) after an upsert, the rows of the CSV either way
inserted_rows(mode) == DatasetRows

\* error_history with the note appended whether it is there or not
with_note_always(errors, note) == Append(errors, note)

\* error_history with the note appended unless it is there already
with_note(errors, note) ==
  IF \E i \in DOMAIN errors : errors[i] = note THEN errors ELSE Append(errors, note)

\* the handling of the upsert retry left out: every DBLoadError ends the loop
\* over the tables as a failed load does
load_table_without_retry(table, config, att, known, skips, errors, rows, first, second) ==
  LET stored_strategy == known[table]
      load_mode == IF stored_strategy # "" THEN stored_strategy
                   ELSE IF prefer_upsert(config) THEN "upsert" ELSE "insert"
      first_call == LoadCall(table, config.truncate_before_load, load_mode, first)
      summary == summarize_exception(Raise("DBLoadError", first.msg, {}))
  IN  IF ~first.raised
      THEN [failed |-> FALSE, summary |-> NoSummary, strategy |-> known,
            skip_tables |-> skips, error_history |-> errors,
            db_rows |-> [rows EXCEPT ![table] = SomeRows(inserted_rows(load_mode))],
            calls |-> << first_call >>]
      ELSE [failed |-> TRUE, summary |-> summary, strategy |-> known,
            skip_tables |-> skips \cup {table},
            error_history |-> Append(errors, HistoryEntry(att, "DB load failed", summary)),
            db_rows |-> rows, calls |-> << first_call >>]

\* one iteration of the loop over the tables with the recorded strategy not
\* consulted
load_table_forgetful(table, config, att, known, skips, errors, rows, first, second) ==
  LET stored_strategy == ""
      load_mode == IF stored_strategy # "" THEN stored_strategy
                   ELSE IF prefer_upsert(config) THEN "upsert" ELSE "insert"
      flagged == IF load_mode = "upsert" THEN skips \ {table} ELSE skips
      first_call == LoadCall(table, config.truncate_before_load, load_mode, first)
      second_call == LoadCall(table, FALSE, "upsert", second)
      duplicate == duplicate_error(first.msg)
      summary == summarize_exception(Raise("DBLoadError", first.msg, {}))
      upsert_summary == summarize_exception(Raise("DBLoadError", second.msg, {}))
  IN  IF table \in flagged
      THEN [failed |-> FALSE, summary |-> NoSummary, strategy |-> known,
            skip_tables |-> flagged,
            error_history |->
              with_note(errors,
                        Note("DB load skipped (duplicate primary key detected earlier).",
                             table)),
            db_rows |-> [rows EXCEPT ![table] = NoRows], calls |-> << >>]
      ELSE IF ~first.raised
      THEN [failed |-> FALSE, summary |-> NoSummary,
            strategy |-> IF load_mode = "upsert"
                         THEN [known EXCEPT ![table] = "upsert"] ELSE known,
            skip_tables |-> flagged, error_history |-> errors,
            db_rows |-> [rows EXCEPT ![table] = SomeRows(inserted_rows(load_mode))],
            calls |-> << first_call >>]
      ELSE IF duplicate /\ load_mode = "insert"
      THEN IF ~second.raised
           THEN [failed |-> FALSE, summary |-> NoSummary,
                 strategy |-> [known EXCEPT ![table] = "upsert"],
                 skip_tables |-> flagged,
                 error_history |->
                   with_note(errors,
                             Note("Duplicate key detected; retried with UPSERT (ON CONFLICT DO NOTHING).",
                                  table)),
                 db_rows |-> [rows EXCEPT ![table] = SomeRows(inserted_rows("upsert"))],
                 calls |-> << first_call, second_call >>]
           ELSE [failed |-> TRUE, summary |-> upsert_summary,
                 strategy |-> [known EXCEPT ![table] = ""],
                 skip_tables |-> flagged,
                 error_history |->
                   Append(errors, HistoryEntry(att, "DB load failed after UPSERT retry",
                                               upsert_summary)),
                 db_rows |-> rows, calls |-> << first_call, second_call >>]
      ELSE [failed |-> TRUE, summary |-> summary,
            strategy |-> IF duplicate /\ load_mode = "upsert"
                         THEN [known EXCEPT ![table] = ""] ELSE known,
            skip_tables |-> flagged \cup {table},
            error_history |-> Append(errors, HistoryEntry(att, "DB load failed", summary)),
            db_rows |-> rows, calls |-> << first_call >>]

\* one iteration of the loop over the tables with the skip flag obeyed
\* whatever the load mode is
load_table_flag_kept(table, config, att, known, skips, errors, rows, first, second) ==
  LET stored_strategy == known[table]
      load_mode == IF stored_strategy # "" THEN stored_strategy
                   ELSE IF prefer_upsert(config) THEN "upsert" ELSE "insert"
      flagged == skips
      first_call == LoadCall(table, config.truncate_before_load, load_mode, first)
      second_call == LoadCall(table, FALSE, "upsert", second)
      duplicate == duplicate_error(first.msg)
      summary == summarize_exception(Raise("DBLoadError", first.msg, {}))
      upsert_summary == summarize_exception(Raise("DBLoadError", second.msg, {}))
  IN  IF table \in flagged
      THEN [failed |-> FALSE, summary |-> NoSummary, strategy |-> known,
            skip_tables |-> flagged,
            error_history |->
              with_note(errors,
                        Note("DB load skipped (duplicate primary key detected earlier).",
                             table)),
            db_rows |-> [rows EXCEPT ![table] = NoRows], calls |-> << >>]
      ELSE IF ~first.raised
      THEN [failed |-> FALSE, summary |-> NoSummary,
            strategy |-> IF load_mode = "upsert"
                         THEN [known EXCEPT ![table] = "upsert"] ELSE known,
            skip_tables |-> flagged, error_history |-> errors,
            db_rows |-> [rows EXCEPT ![table] = SomeRows(inserted_rows(load_mode))],
            calls |-> << first_call >>]
      ELSE IF duplicate /\ load_mode = "insert"
      THEN IF ~second.raised
           THEN [failed |-> FALSE, summary |-> NoSummary,
                 strategy |-> [known EXCEPT ![table] = "upsert"],
                 skip_tables |-> flagged,
                 error_history |->
                   with_note(errors,
                             Note("Duplicate key detected; retried with UPSERT (ON CONFLICT DO NOTHING).",
                                  table)),
                 db_rows |-> [rows EXCEPT ![table] = SomeRows(inserted_rows("upsert"))],
                 calls |-> << first_call, second_call >>]
           ELSE [failed |-> TRUE, summary |-> upsert_summary,
                 strategy |-> [known EXCEPT ![table] = ""],
                 skip_tables |-> flagged,
                 error_history |->
                   Append(errors, HistoryEntry(att, "DB load failed after UPSERT retry",
                                               upsert_summary)),
                 db_rows |-> rows, calls |-> << first_call, second_call >>]
      ELSE [failed |-> TRUE, summary |-> summary,
            strategy |-> IF duplicate /\ load_mode = "upsert"
                         THEN [known EXCEPT ![table] = ""] ELSE known,
            skip_tables |-> flagged \cup {table},
            error_history |-> Append(errors, HistoryEntry(att, "DB load failed", summary)),
            db_rows |-> rows, calls |-> << first_call >>]

\* one iteration of the loop over the tables: the load mode, the skip flag,
\* the load, and the upsert retry after a duplicate key. `first` and `second`
\* are what the loader does when it is called
load_table(table, config, att, known, skips, errors, rows, first, second) ==
  LET stored_strategy == known[table]
      load_mode == IF stored_strategy # "" THEN stored_strategy
                   ELSE IF prefer_upsert(config) THEN "upsert" ELSE "insert"
      flagged == IF load_mode = "upsert" THEN skips \ {table} ELSE skips
      first_call == LoadCall(table, config.truncate_before_load, load_mode, first)
      second_call == LoadCall(table, FALSE, "upsert", second)
      duplicate == duplicate_error(first.msg)
      summary == summarize_exception(Raise("DBLoadError", first.msg, {}))
      upsert_summary == summarize_exception(Raise("DBLoadError", second.msg, {}))
  IN  IF table \in flagged
      THEN [failed |-> FALSE, summary |-> NoSummary, strategy |-> known,
            skip_tables |-> flagged,
            error_history |->
              with_note(errors,
                        Note("DB load skipped (duplicate primary key detected earlier).",
                             table)),
            db_rows |-> [rows EXCEPT ![table] = NoRows], calls |-> << >>]
      ELSE IF ~first.raised
      THEN [failed |-> FALSE, summary |-> NoSummary,
            strategy |-> IF load_mode = "upsert"
                         THEN [known EXCEPT ![table] = "upsert"] ELSE known,
            skip_tables |-> flagged, error_history |-> errors,
            db_rows |-> [rows EXCEPT ![table] = SomeRows(inserted_rows(load_mode))],
            calls |-> << first_call >>]
      ELSE IF duplicate /\ load_mode = "insert"
      THEN IF ~second.raised
           THEN [failed |-> FALSE, summary |-> NoSummary,
                 strategy |-> [known EXCEPT ![table] = "upsert"],
                 skip_tables |-> flagged,
                 error_history |->
                   with_note(errors,
                             Note("Duplicate key detected; retried with UPSERT (ON CONFLICT DO NOTHING).",
                                  table)),
                 db_rows |-> [rows EXCEPT ![table] = SomeRows(inserted_rows("upsert"))],
                 calls |-> << first_call, second_call >>]
           ELSE [failed |-> TRUE, summary |-> upsert_summary,
                 strategy |-> [known EXCEPT ![table] = ""],
                 skip_tables |-> flagged,
                 error_history |->
                   Append(errors, HistoryEntry(att, "DB load failed after UPSERT retry",
                                               upsert_summary)),
                 db_rows |-> rows, calls |-> << first_call, second_call >>]
      ELSE [failed |-> TRUE, summary |-> summary,
            strategy |-> IF duplicate /\ load_mode = "upsert"
                         THEN [known EXCEPT ![table] = ""] ELSE known,
            skip_tables |-> flagged \cup {table},
            error_history |-> Append(errors, HistoryEntry(att, "DB load failed", summary)),
            db_rows |-> rows, calls |-> << first_call >>]

\* table_choice with the directive obeyed: the table it names
table_choice_as_named(parsed) == parsed.table

\* table_choice of _handle_etl: the table of the directive, overridden to
\* "all" when it names a single table
table_choice(parsed) == IF parsed.table # <<"a","l","l">> THEN <<"a","l","l">> ELSE parsed.table

\* `tables` of _handle_etl after the pipeline has run
chosen_tables(choice, produced) ==
  IF choice = <<"a","l","l">> THEN order_tables(produced) ELSE order_tables(<< choice >>)

\* the response of a successful attempt
etl_response(att, ordered, rows, errors) ==
  ETLAgentResponse(
    [i \in DOMAIN ordered |-> ETLTableSummary(ordered[i], DatasetRows, rows[ordered[i]])],
    att, att > 1, errors, <<"context">>)

EtlInit ==
  /\ max_retries \in 0..MaxRetriesBound
  /\ prompt = EtlPrompts[1]
  /\ history = << UserTurn(EtlPrompts[1]) >>
  /\ last_intent = ""
  /\ session0 = Sessions[1]
  /\ pc = "etl"
  /\ request_history = << >>
  /\ active_intent = "ETL"
  /\ attempt = 0
  /\ error_messages = << >>
  /\ last_sql = NoSql
  /\ sql = EmptySql
  /\ required_literals = << >>
  /\ result = NoResult
  /\ calls = [NoCalls EXCEPT !.classifier = 1]
  /\ sent = NoSent
  /\ generated = << >>
  /\ failures = << >>
  /\ run_select_call = NoRunSelect
  /\ classifier_reply = [raised |-> "", text |-> <<"e","t","l">>]
  /\ g_pc = "idle"
  /\ g_sql = EmptySql
  /\ g_limit = DefaultResultLimit
  /\ g_res = NoValidation
  /\ g_res2 = NoValidation
  /\ \E c \in DOMAIN EtlConfigs : etl_config = EtlConfigs[c]
  /\ source_files = SourceFiles[1]
  /\ cache_responses = [k \in EtlCacheKeys |-> Absent]
  /\ cache_errors = [k \in EtlCacheKeys |-> Absent]
  /\ cache_skips = [k \in EtlCacheKeys |-> Absent]
  /\ cache_key = NoCacheKey
  /\ error_history = << >>
  /\ skip_tables = {}
  /\ strategy = NoStrategies
  /\ strategy_file = NoStrategies
  /\ directive_raw = << >>
  /\ directive = NoDirective
  /\ pipeline_results = << >>
  /\ tables = << >>
  /\ table_index = 0
  /\ db_rows = << >>
  /\ loads = << >>
  /\ invocation = 1
  /\ earlier = NoOutcome
  /\ faults = 0
  /\ PeersIdle

\* the end of handle_query after _handle_etl has returned: _record_agent_turn
\* and set_last_intent
EtlReturn(response) ==
  /\ result' = response
  /\ pc' = "returned"
  /\ history' = append_json_list(history, AgentTurn("ETL", << >>, 0, response.errors),
                                 MAX_TURNS_STORED)
  /\ last_intent' = "ETL"

\* the end of a failed attempt with no last attempt: the next one follows
EtlFailAttemptUnbounded(summary, errors) ==
  /\ attempt' = attempt + 1
  /\ pc' = "directive"
  /\ UNCHANGED <<result, history, last_intent>>

\* the end of a failed attempt: the last attempt raises, any other is
\* followed by the next
EtlFailAttempt(summary, errors) ==
  /\ IF attempt = max_retries
     THEN /\ result' = AgentExecutionError(summary, attempt, errors)
          /\ pc' = "raised"
          /\ UNCHANGED attempt
     ELSE /\ attempt' = attempt + 1
          /\ pc' = "directive"
          /\ UNCHANGED result
  /\ UNCHANGED <<history, last_intent>>

\* set_json(error_history_key, error_history) if there is a cache client
PersistErrors(errors) ==
  IF cache_key.present
  THEN cache_errors' = [cache_errors EXCEPT ![cache_key.key] = Stored(errors)]
  ELSE UNCHANGED cache_errors

\* the attempt has succeeded and the persisted error history is left in the
\* cache
EtlSucceedKeepingErrors(ordered, rows, errors) ==
  \E response \in {etl_response(attempt, ordered, rows, errors)} :
    /\ IF cache_key.present
       THEN /\ cache_responses' =
                 [cache_responses EXCEPT
                    ![cache_key.key] = Stored(etl_agent_response_to_cache_payload(response))]
            /\ UNCHANGED cache_errors
       ELSE UNCHANGED <<cache_responses, cache_errors>>
    /\ EtlReturn(response)
    /\ UNCHANGED attempt

\* the attempt has succeeded: the response is cached, the persisted error
\* history is deleted, and handle_query returns
EtlSucceed(ordered, rows, errors) ==
  \E response \in {etl_response(attempt, ordered, rows, errors)} :
    /\ IF cache_key.present
       THEN /\ cache_responses' =
                 [cache_responses EXCEPT
                    ![cache_key.key] = Stored(etl_agent_response_to_cache_payload(response))]
            /\ cache_errors' = [cache_errors EXCEPT ![cache_key.key] = Absent]
       ELSE UNCHANGED <<cache_responses, cache_errors>>
    /\ EtlReturn(response)
    /\ UNCHANGED attempt

\* _handle_etl, to the head of the loop: the retrieval, the lookup of the
\* cached response, the restored error history and skip flags, and the exit
\* of a loop that has no iteration
EtlRetrieve ==
  /\ pc = "etl"
  /\ calls' = [calls EXCEPT !.retriever = @ + 1]
  /\ \E retrieved \in {b \in BOOLEAN : b \/ faults < MaxFaults} :
     \E key \in {request_key(prompt, etl_config, source_files)} :
       /\ faults' = IF retrieved THEN faults ELSE faults + 1
       /\ IF ~retrieved
          THEN /\ result' = Propagated("RetrievalError")
               /\ pc' = "raised"
               /\ UNCHANGED <<attempt, history, last_intent, cache_key, error_history,
                              skip_tables>>
          ELSE IF etl_config.cache /\ cache_responses[key].present
          THEN /\ EtlReturn(cached_response_to_etl_agent_response(
                               cache_responses[key].value))
               /\ cache_key' = SomeCacheKey(key)
               /\ UNCHANGED <<attempt, error_history, skip_tables>>
          ELSE \E restored \in {IF etl_config.cache /\ cache_errors[key].present
                                THEN cache_errors[key].value ELSE << >>} :
               /\ cache_key' = IF etl_config.cache THEN SomeCacheKey(key) ELSE NoCacheKey
               /\ error_history' = restored
               /\ skip_tables' = IF etl_config.cache /\ cache_skips[key].present
                                 THEN cache_skips[key].value ELSE {}
               /\ IF max_retries >= 1
                  THEN /\ attempt' = 1
                       /\ pc' = "directive"
                       /\ UNCHANGED result
                  ELSE /\ result' = AgentExecutionError(
                                      [prefix |-> "",
                                       msg |-> "Agent failed after ETL retries.",
                                       ids |-> {}], max_retries, restored)
                       /\ pc' = "raised"
                       /\ UNCHANGED attempt
               /\ UNCHANGED <<history, last_intent>>
  /\ UNCHANGED <<max_retries, prompt, sent>>
  /\ UNCHANGED sql_locals
  /\ UNCHANGED gvars
  /\ UNCHANGED xvars
  /\ UNCHANGED <<etl_config, source_files, cache_responses, cache_errors, cache_skips,
                 strategy, strategy_file, directive_raw, directive, pipeline_results,
                 tables, table_index, db_rows, loads, invocation, earlier>>

\* one attempt, to the end of the first try block: the prompt, the
\* generator, _parse_etl_directive, the override of the table choice
EtlDirective ==
  /\ pc = "directive"
  /\ sent' = [attempt |-> attempt,
              prompt |-> build_etl_prompt(
                           augment_prompt_with_history(prompt, history),
                           <<"context">>, error_history),
              repair |-> FALSE]
  /\ calls' = [calls EXCEPT !.generator = @ + 1]
  /\ \E reply \in EtlGeneratorReplies :
     \E parsed \in {IF reply.raised THEN NoDirective
                    ELSE parse_etl_directive(reply.text, CatalogTableNames)} :
       /\ (reply.raised \/ parsed.raised) => faults < MaxFaults
       /\ faults' = IF reply.raised \/ parsed.raised THEN faults + 1 ELSE faults
       /\ directive_raw' = reply.text
       /\ IF reply.raised
          THEN \E summary \in {summarize_exception(Raise("LLMError", "LLM request failed", {}))} :
               \E errors \in {Append(error_history,
                                     HistoryEntry(attempt, "directive failed", summary))} :
                 /\ error_history' = errors
                 /\ PersistErrors(errors)
                 /\ EtlFailAttempt(summary, errors)
                 /\ directive' = NoDirective
          ELSE IF parsed.raised
          THEN \E summary \in {summarize_exception(parsed)} :
               \E errors \in {Append(error_history,
                                     HistoryEntry(attempt, "directive invalid", summary))} :
                 /\ error_history' = errors
                 /\ PersistErrors(errors)
                 /\ EtlFailAttempt(summary, errors)
                 /\ directive' = NoDirective
          ELSE /\ directive' = parsed
               /\ pc' = "pipeline"
               /\ UNCHANGED <<attempt, result, history, last_intent, error_history,
                              cache_errors>>
  /\ UNCHANGED <<max_retries, prompt>>
  /\ UNCHANGED sql_locals
  /\ UNCHANGED gvars
  /\ UNCHANGED xvars
  /\ UNCHANGED <<etl_config, source_files, cache_responses, cache_skips, cache_key,
                 skip_tables, strategy, strategy_file, pipeline_results, tables,
                 table_index, db_rows, loads, invocation, earlier>>

\* the second try block, to the loop over the tables: the schema mapping,
\* run_pipeline_all, the order of the tables; with database loading disabled,
\* the rest of the attempt
EtlPipeline ==
  /\ pc = "pipeline"
  /\ \E mapped \in (IF etl_config.manifest /\ etl_config.auto_mapping
                    THEN {"mapped", "SchemaMappingError"} ELSE {"off"}) :
     \E errors \in {IF mapped = "SchemaMappingError"
                    THEN with_note(error_history,
                                   [attempt |-> 0, stage |-> "Schema mapping failed",
                                    summary |-> NoSummary])
                    ELSE error_history} :
     \E outcome \in PipelineOutcomes :
     \E ordered \in {chosen_tables(table_choice(directive), outcome.tables)} :
       /\ faults + (IF mapped = "SchemaMappingError" THEN 1 ELSE 0)
                 + (IF outcome.raised THEN 1 ELSE 0) <= MaxFaults
       /\ faults' = faults + (IF mapped = "SchemaMappingError" THEN 1 ELSE 0)
                           + (IF outcome.raised THEN 1 ELSE 0)
       /\ calls' = [calls EXCEPT !.pipeline = @ + 1,
                                 !.mapper = IF mapped = "off" THEN @ ELSE @ + 1]
       /\ loads' = << >>
       /\ IF outcome.raised
          THEN \E summary \in {summarize_exception(
                                 Raise("ETLError", "No JSON bundles found", {}))} :
               \E failed \in {Append(errors,
                                     HistoryEntry(attempt, "pipeline failed", summary))} :
                 /\ error_history' = failed
                 /\ IF errors # error_history THEN PersistErrors(errors)
                    ELSE UNCHANGED cache_errors
                 /\ EtlFailAttempt(summary, failed)
                 /\ UNCHANGED <<pipeline_results, tables, table_index, db_rows,
                                cache_responses>>
          ELSE /\ pipeline_results' = outcome.tables
               /\ tables' = ordered
               /\ IF etl_config.enable_db_load
                  THEN /\ db_rows' = [t \in {ordered[i] : i \in DOMAIN ordered} |-> NoRows]
                       /\ table_index' = 1
                       /\ pc' = "load"
                       /\ error_history' = errors
                       /\ IF errors # error_history THEN PersistErrors(errors)
                          ELSE UNCHANGED cache_errors
                       /\ UNCHANGED <<attempt, result, history, last_intent,
                                      cache_responses>>
                  ELSE \E noted \in {with_note(errors,
                                       [attempt |-> 0,
                                        stage |-> "Database loading is disabled via configuration",
                                        summary |-> NoSummary])} :
                       \E rows \in {[t \in {ordered[i] : i \in DOMAIN ordered} |-> NoRows]} :
                         /\ db_rows' = rows
                         /\ table_index' = 0
                         /\ error_history' = noted
                         /\ EtlSucceed(ordered, rows, noted)
  /\ UNCHANGED <<max_retries, prompt, sent>>
  /\ UNCHANGED sql_locals
  /\ UNCHANGED gvars
  /\ UNCHANGED xvars
  /\ UNCHANGED <<etl_config, source_files, cache_skips, cache_key, skip_tables,
                 strategy, strategy_file, directive_raw, directive, invocation,
                 earlier>>

\* one iteration of the loop over the tables, and after the last one or a
\* break the rest of the attempt
EtlLoad ==
  /\ pc = "load"
  /\ \E first \in LoadOutcomes, second \in LoadOutcomes :
     \E step \in {load_table(tables[table_index], etl_config, attempt, strategy,
                             skip_tables, error_history, db_rows, first, second)} :
       /\ faults + Cardinality({i \in DOMAIN step.calls : step.calls[i].raised})
            <= MaxFaults
       /\ faults' = faults + Cardinality({i \in DOMAIN step.calls : step.calls[i].raised})
       /\ strategy' = step.strategy
       /\ strategy_file' = IF step.strategy # strategy THEN step.strategy ELSE strategy_file
       /\ skip_tables' = step.skip_tables
       /\ cache_skips' = IF cache_key.present /\ step.skip_tables # skip_tables
                         THEN [cache_skips EXCEPT ![cache_key.key] = Stored(step.skip_tables)]
                         ELSE cache_skips
       /\ error_history' = step.error_history
       /\ db_rows' = step.db_rows
       /\ loads' = loads \o step.calls
       /\ calls' = [calls EXCEPT !.loader = @ + Len(step.calls)]
       /\ IF step.failed
          THEN /\ PersistErrors(step.error_history)
               /\ EtlFailAttempt(step.summary, step.error_history)
               /\ UNCHANGED <<table_index, cache_responses>>
          ELSE IF table_index < Len(tables)
          THEN /\ table_index' = table_index + 1
               /\ IF step.error_history # error_history
                  THEN PersistErrors(step.error_history)
                  ELSE UNCHANGED cache_errors
               /\ UNCHANGED <<pc, attempt, result, history, last_intent, cache_responses>>
          ELSE /\ EtlSucceed(tables, step.db_rows, step.error_history)
               /\ UNCHANGED table_index
  /\ UNCHANGED <<max_retries, prompt, sent>>
  /\ UNCHANGED sql_locals
  /\ UNCHANGED gvars
  /\ UNCHANGED xvars
  /\ UNCHANGED <<etl_config, source_files, cache_key, directive_raw, directive,
                 pipeline_results, tables, invocation, earlier>>

\* the next request to the same service: handle_query up to the dispatch to
\* _handle_etl, with the stores as the request before left them. The prompt
\* is the next of EtlPrompts; the source files are as they were or rewritten
EtlReinvoke ==
  /\ pc \in {"returned", "raised"}
  /\ invocation < Len(EtlPrompts)
  /\ invocation' = invocation + 1
  /\ earlier' = [ended |-> TRUE,
                  key |-> request_key(prompt, etl_config, source_files),
                  result |-> result]
  /\ \E p \in {invocation + 1} : \E f \in DOMAIN SourceFiles :
       /\ prompt' = EtlPrompts[p]
       /\ source_files' = SourceFiles[f]
       /\ history' = append_json_list(history, UserTurn(EtlPrompts[p]), MAX_TURNS_STORED)
  /\ pc' = "etl"
  /\ attempt' = 0
  /\ result' = NoResult
  /\ calls' = [NoCalls EXCEPT !.classifier = 1]
  /\ sent' = NoSent
  /\ cache_key' = NoCacheKey
  /\ error_history' = << >>
  /\ skip_tables' = {}
  /\ directive_raw' = << >>
  /\ directive' = NoDirective
  /\ pipeline_results' = << >>
  /\ tables' = << >>
  /\ table_index' = 0
  /\ db_rows' = << >>
  /\ loads' = << >>
  /\ UNCHANGED <<max_retries, last_intent>>
  /\ UNCHANGED sql_locals
  /\ UNCHANGED gvars
  /\ UNCHANGED xvars
  /\ UNCHANGED <<etl_config, cache_responses, cache_errors, cache_skips, strategy,
                 strategy_file, faults>>

EtlNext == EtlRetrieve \/ EtlDirective \/ EtlPipeline \/ EtlLoad \/ EtlReinvoke

SpecEtl == EtlInit /\ [][EtlNext]_vars


\* a step of handle_query on its way to its return or its raise: the code
\* waits for nothing but its collaborators, and each of them answers or fails
HandlerRuns ==
  /\ pc \in {"etl", "directive", "pipeline", "load"}
  /\ pc' \in {"directive", "pipeline", "load", "returned", "raised"}
  /\ attempt' \in 0..max_retries
  /\ table_index' \in 0..Len(PREFERRED_LOAD_ORDER)

\* the bulk-load path with its scheduling: a request that has been received
\* is handled to its end, and the client sends its next request
SpecEtlFair ==
  /\ EtlInit
  /\ [][EtlNext]_vars
  /\ WF_<<pc, attempt, table_index>>(HandlerRuns)
  /\ WF_vars(EtlReinvoke)
\* ------------------------------------------------------------------------
\* Properties: vocabulary
\* ------------------------------------------------------------------------

\* the word w (lower case) occurs in s as a whole word, whatever the case of
\* the letters of s, starting at position i
WholeWordAt(s, i, w) ==
  /\ i >= 1
  /\ i + Len(w) - 1 <= Len(s)
  /\ \A k \in 1..Len(w) : lower_char(s[i + k - 1]) = w[k]
  /\ i = 1 \/ ~IsWordChar(s[i - 1])
  /\ i + Len(w) - 1 = Len(s) \/ ~IsWordChar(s[i + Len(w)])

\* position i of s is inside a single-quoted string literal
InsideLiteral(s, i) == Cardinality({ j \in 1..(i - 1) : s[j] = "'" }) % 2 = 1

\* s has a LIMIT clause: the keyword, outside any string literal
HasLimitClause(s) ==
  \E i \in 1..Len(s) : WholeWordAt(s, i, <<"l","i","m","i","t">>) /\ ~InsideLiteral(s, i)

\* s begins, after leading whitespace, with SELECT or WITH
BeginsWithSelectOrWith(s) ==
  \E n \in 0..Len(s) :
    /\ \A i \in 1..n : IsSpace(s[i])
    /\ \E w \in { <<"s","e","l","e","c","t">>, <<"w","i","t","h">> } :
         /\ n + Len(w) <= Len(s)
         /\ \A k \in 1..Len(w) : lower_char(s[n + k]) = w[k]
         /\ n + Len(w) = Len(s) \/ ~IsWordChar(s[n + Len(w) + 1])

BannedKeywords ==
  { <<"i","n","s","e","r","t">>, <<"u","p","d","a","t","e">>, <<"d","e","l","e","t","e">>, <<"d","r","o","p">>, <<"a","l","t","e","r">>, <<"c","r","e","a","t","e">>,
    <<"g","r","a","n","t">>, <<"r","e","v","o","k","e">>, <<"t","r","u","n","c","a","t","e">>, <<"c","o","m","m","e","n","t">>, <<"m","e","r","g","e">>, <<"c","a","l","l">>,
    <<"e","x","e","c">> }

\* s contains a banned keyword as a whole word
HasBannedKeyword(s) ==
  \E w \in BannedKeywords : \E i \in 1..Len(s) : WholeWordAt(s, i, w)

\* the position of the last character of s that is not whitespace, 0 if none
LastVisible(s) ==
  IF \A i \in 1..Len(s) : IsSpace(s[i]) THEN 0
  ELSE CHOOSE i \in 1..Len(s) :
         ~IsSpace(s[i]) /\ \A j \in (i + 1)..Len(s) : IsSpace(s[j])

\* s has a semicolon before its final trailing semicolon: a semicolon that is
\* not the last visible character of s
SemicolonBeforeFinal(s) ==
  \E i \in 1..Len(s) : s[i] = ";" /\ i < LastVisible(s)

\* s has a semicolon that is followed, before the trailing whitespace, by a
\* character other than a semicolon
SemicolonBeforeText(s) ==
  \E i \in 1..Len(s) :
    /\ s[i] = ";"
    /\ \E k \in (i + 1)..LastVisible(s) : s[k] # ";"

\* s without its trailing run of whitespace and then its trailing semicolons
WithoutTrailing(s) ==
  LET v == LastVisible(s)
      kept == { i \in 0..v : \A j \in (i + 1)..v : s[j] = ";" }
  IN  SubSeq(s, 1, CHOOSE i \in kept : \A j \in kept : i <= j)

\* the decimal digits of n, n below 10000
Decimal(n) ==
  LET d(k) == <<"0","1","2","3","4","5","6","7","8","9">>[((n \div k) % 10) + 1]
  IN  IF n >= 1000 THEN <<d(1000), d(100), d(10), d(1)>>
      ELSE IF n >= 100 THEN <<d(100), d(10), d(1)>>
      ELSE IF n >= 10 THEN <<d(10), d(1)>>
      ELSE <<d(1)>>

CatalogTables ==
  { <<"p","a","t","i","e","n","t","s">>, <<"e","n","c","o","u","n","t","e","r","s">>, <<"c","o","n","d","i","t","i","o","n","s">>, <<"p","r","o","c","e","d","u","r","e","s">>,
    <<"m","e","d","i","c","a","t","i","o","n","s">>, <<"o","b","s","e","r","v","a","t","i","o","n","s">> }

CatalogColumns == UNION { TABLE_COLUMN_MAP[t] : t \in DOMAIN TABLE_COLUMN_MAP }

\* the tables the text references that are not in the catalog
UnknownTables(refs) ==
  { refs.tables[i] : i \in { j \in DOMAIN refs.tables :
                               lower(refs.tables[j]) \notin CatalogTables } }

\* the non-star columns the text references that are neither a catalog column
\* nor an alias of the projection list of the enclosing SELECT, lower-cased
UnknownColumns(refs) ==
  { lower(refs.columns[i].name) :
      i \in { j \in DOMAIN refs.columns :
                /\ ~refs.columns[j].is_star
                /\ lower(refs.columns[j].name) \notin CatalogColumns
                /\ \A a \in DOMAIN refs.selects[refs.columns[j].select].aliases :
                     lower(refs.selects[refs.columns[j].select].aliases[a])
                       # lower(refs.columns[j].name) } }

GuardValidated == g_pc \in {"validated", "revalidated"}

\* ------------------------------------------------------------------------
\* Properties of validate_sql
\* ------------------------------------------------------------------------

\* C8, as stated: validate_sql raises GuardrailViolation for every input that
\* does not begin with SELECT or WITH, or contains a banned keyword as a whole
\* word, or contains a semicolon before the final trailing semicolon.
C8_AsStated ==
  GuardValidated =>
    ( ( \/ ~BeginsWithSelectOrWith(g_sql.text)
        \/ HasBannedKeyword(g_sql.text)
        \/ SemicolonBeforeFinal(g_sql.text) )
      => g_res.raised /\ g_res.exc = "GuardrailViolation" /\ g_res.query = << >> )

\* C8, amended: validate_sql raises GuardrailViolation, and returns no
\* normalized query, for every input that does not begin with SELECT or WITH,
\* or contains a banned keyword as a whole word, or contains a semicolon that
\* is followed by anything but semicolons and trailing whitespace; a run of
\* semicolons at the end of the text is accepted.
C8_ReadOnly ==
  GuardValidated =>
    /\ ( \/ ~BeginsWithSelectOrWith(g_sql.text)
         \/ HasBannedKeyword(g_sql.text)
         \/ SemicolonBeforeText(g_sql.text) )
       => g_res.raised /\ g_res.exc = "GuardrailViolation" /\ g_res.query = << >>
    /\ ( /\ g_res.raised
         /\ g_res.msg = "Multiple SQL statements are not allowed." )
       => SemicolonBeforeText(g_sql.text)

\* an input with a second statement after a semicolon was rejected
C8_Witness ==
  /\ g_pc = "validated"
  /\ BeginsWithSelectOrWith(g_sql.text)
  /\ ~HasBannedKeyword(g_sql.text)
  /\ SemicolonBeforeText(g_sql.text)
  /\ g_res.raised
  /\ g_res.msg = "Multiple SQL statements are not allowed."

\* C9, as stated: for a query that passes the other guardrails, validate_sql
\* reports injection iff the input has no LIMIT clause; with a LIMIT the text
\* is returned unchanged, without one the result is the input without trailing
\* whitespace and semicolons followed by LIMIT <limit>; validating the result
\* again reports no injection and returns it unchanged.
C9_AsStated ==
  (GuardValidated /\ ~g_res.raised) =>
    /\ g_res.enforced_limit <=> ~HasLimitClause(g_sql.text)
    /\ HasLimitClause(g_sql.text) => g_res.query = g_sql.text
    /\ ~HasLimitClause(g_sql.text) =>
         g_res.query = WithoutTrailing(g_sql.text) \o <<"\n","L","I","M","I","T"," ">> \o Decimal(g_limit)
    /\ g_pc = "revalidated" =>
         /\ ~g_res2.raised
         /\ ~g_res2.enforced_limit
         /\ g_res2.query = g_res.query

\* C10, as stated: for a query that passes the read-only checks, validate_sql
\* raises GuardrailViolation naming the identifier when the query references a
\* table outside the catalog or a non-star column that is neither a catalog
\* column nor an alias of the enclosing SELECT; a query with only known tables
\* and columns is not rejected.
C10_AsStated ==
  (GuardValidated /\ ~ensure_read_only(g_sql.text).raised) =>
    /\ UnknownTables(g_sql.refs) # {} =>
         g_res.raised /\ g_res.msg = "Unknown table(s)"
           /\ g_res.ids = UnknownTables(g_sql.refs)
    /\ (UnknownTables(g_sql.refs) = {} /\ UnknownColumns(g_sql.refs) # {}) =>
         g_res.raised /\ g_res.msg = "Unknown column"
           /\ g_res.ids \subseteq UnknownColumns(g_sql.refs) /\ g_res.ids # {}
    /\ (UnknownTables(g_sql.refs) = {} /\ UnknownColumns(g_sql.refs) = {}) =>
         ~g_res.raised

\* C10, amended: for a query that passes the read-only checks and that the
\* SQL parser accepts, validate_sql raises GuardrailViolation naming the
\* identifier when the query references a table outside the catalog (first)
\* or a non-star column that is in no table's column list and is no alias of
\* the enclosing SELECT; a query with only known tables and columns is not
\* rejected; a text the parser rejects skips both checks and is not rejected.
C10_KnownNames ==
  (GuardValidated /\ ~ensure_read_only(g_sql.text).raised) =>
    IF g_sql.parses
    THEN /\ UnknownTables(g_sql.refs) # {} =>
              g_res.raised /\ g_res.msg = "Unknown table(s)"
                /\ g_res.ids = UnknownTables(g_sql.refs)
         /\ (UnknownTables(g_sql.refs) = {} /\ UnknownColumns(g_sql.refs) # {}) =>
              g_res.raised /\ g_res.msg = "Unknown column"
                /\ g_res.ids \subseteq UnknownColumns(g_sql.refs) /\ g_res.ids # {}
         /\ (UnknownTables(g_sql.refs) = {} /\ UnknownColumns(g_sql.refs) = {}) =>
              ~g_res.raised
    ELSE ~g_res.raised

\* a schema-qualified, capitalised catalog table with an aliased column named
\* in ORDER BY was accepted
C10_Witness ==
  /\ g_pc = "validated"
  /\ g_sql.parses
  /\ \E i \in DOMAIN g_sql.refs.tables : g_sql.refs.tables[i] = <<"P","a","t","i","e","n","t","s">>
  /\ \E i \in DOMAIN g_sql.refs.columns : g_sql.refs.columns[i].name = <<"f","n","a","m","e">>
  /\ ~g_res.raised

\* ------------------------------------------------------------------------
\* Properties of the query path
\* ------------------------------------------------------------------------

\* the literals of the prompts: one ISO date, one UUID
KnownLiterals ==
  { <<"2","0","2","4","-","0","1","-","0","1">>, <<"1","D","6","0","4","D","A","9","-","9","A","8","1","-","4","B","A","9","-","8","0","C","2","-","D","E","3","3","7","5","D","5","9","B","4","0">> }

\* s contains w, whatever the case of the letters of either
ContainsIgnoringCase(s, w) ==
  \E i \in 1..(Len(s) - Len(w) + 1) :
    \A k \in 1..Len(w) : lower_char(s[i + k - 1]) = lower_char(w[k])

\* the dates and UUIDs that occur in the prompt
PromptLiterals == { w \in KnownLiterals : ContainsIgnoringCase(prompt, w) }

\* the literals of the prompt that a generated text lacks
LackingLiterals(text) == { w \in PromptLiterals : ~ContainsIgnoringCase(text, w) }

\* the prompt contains a prompt-prohibited keyword
PromptProhibited ==
  \E w \in { <<"d","r","o","p">>, <<"d","e","l","e","t","e">>, <<"t","r","u","n","c","a","t","e">>, <<"a","l","t","e","r">>, <<"u","p","d","a","t","e">>,
             <<"i","n","s","e","r","t">>, <<"c","r","e","a","t","e">>, <<"g","r","a","n","t">>, <<"r","e","v","o","k","e">> } :
    ContainsIgnoringCase(prompt, w)

\* the entries of the failure log made by attempt k
EntriesOf(k) == { i \in DOMAIN failures : failures[i].attempt = k }

\* C1, as stated: run_select is only invoked with the normalized output of
\* validate_sql for the SQL of the current attempt; no text for which a
\* read-only, banned-keyword, single-statement, known-table or known-column
\* check raises reaches it, and every text that reaches it has a LIMIT clause.
C1_AsStated ==
  run_select_call.attempt > 0 =>
    /\ generated[run_select_call.attempt] = SomeSql(run_select_call.raw)
    /\ BeginsWithSelectOrWith(run_select_call.raw)
    /\ ~HasBannedKeyword(run_select_call.raw)
    /\ ~SemicolonBeforeText(run_select_call.raw)
    /\ \E r \in GeneratorReplies :
         /\ r.sql.text = run_select_call.raw
         /\ UnknownTables(r.sql.refs) = {}
         /\ UnknownColumns(r.sql.refs) = {}
         /\ run_select_call.arg
              = validate_sql(r.sql.text, parse_one(r.sql), DefaultResultLimit).query
    /\ HasLimitClause(run_select_call.arg)

\* C2: for max_retries = N >= 1, when every attempt has failed, handle_query
\* has raised AgentExecutionError with attempts = N and a history of exactly N
\* entries, one per attempt in attempt order, and the generator was called
\* exactly N times; AgentExecutionError is raised in no other case.
C2_BudgetExhausted ==
  max_retries >= 1 =>
    /\ Len(failures) = max_retries =>
         /\ pc = "raised"
         /\ result.kind = "AgentExecutionError"
    /\ result.kind = "AgentExecutionError" =>
         /\ result.attempts = max_retries
         /\ Len(result.errors) = max_retries
         /\ result.errors = error_messages
         /\ Len(failures) = max_retries
         /\ \A i \in DOMAIN failures :
              /\ failures[i].attempt = i
              /\ result.errors[i].prefix
                   = summarize_exception([exc |-> failures[i].exc, msg |-> "",
                                          ids |-> {}]).prefix
         /\ result.message = result.errors[max_retries]
         /\ calls.generator = max_retries

\* three attempts failed at three different steps and the budget was three
C2_Witness ==
  /\ max_retries = 3
  /\ result.kind = "AgentExecutionError"
  /\ Len(result.errors) = 3
  /\ failures[1].step = "generate"
  /\ failures[2].step = "validate_sql"
  /\ failures[3].step = "validate_result"

\* C3: when the query path returns a result at attempt k, the result has
\* attempts = k, repaired = (k > 1), and errors is the list of the k - 1
\* summaries of the failed attempts 1..k-1 in order.
C3_HonestAccounting ==
  result.kind = "SQLAgentResponse" =>
    /\ pc = "returned"
    /\ result.attempts = calls.generator
    /\ result.attempts >= 1 /\ result.attempts <= max_retries
    /\ result.repaired <=> result.attempts > 1
    /\ Len(result.errors) = result.attempts - 1
    /\ result.errors = error_messages
    /\ Len(failures) = result.attempts - 1
    /\ \A i \in DOMAIN failures : failures[i].attempt = i
    /\ run_select_call.attempt = result.attempts
    /\ result.sql = run_select_call.arg

\* the third attempt succeeded after two failures
C3_Witness ==
  /\ result.kind = "SQLAgentResponse"
  /\ result.attempts = 3
  /\ result.repaired
  /\ Len(result.errors) = 2

\* C4, as stated: the prompt sent to the generator on every attempt k > 1 is
\* a repair prompt that contains the SQL text produced in the previous attempt
\* and the most recent error summary; only attempt 1 uses the plain prompt.
C4_AsStated ==
  /\ sent.attempt = 1 => sent.prompt.kind = "generate"
  /\ sent.attempt > 1 =>
       /\ sent.prompt.kind = "repair"
       /\ generated[sent.attempt - 1].some
       /\ sent.prompt.previous_sql = generated[sent.attempt - 1].text
       /\ sent.prompt.error_summary = error_messages[sent.attempt - 1]

\* C5: a generated SQL that lacks a date or UUID of the prompt (compared
\* without regard to case) is never passed to the executor; its attempt ends
\* without execution with exactly one 'omitted required values' summary, and
\* is followed by another attempt if budget remains, otherwise by
\* AgentExecutionError.
C5_LiteralPreservation ==
  /\ run_select_call.attempt > 0 => LackingLiterals(run_select_call.raw) = {}
  /\ \A k \in DOMAIN generated :
       (generated[k].some /\ LackingLiterals(generated[k].text) # {}) =>
         /\ run_select_call.attempt # k
         /\ Cardinality(EntriesOf(k)) = 1
         /\ \A i \in EntriesOf(k) :
              /\ failures[i].step = "literals"
              /\ error_messages[i].prefix = "Guardrail violation: "
              /\ error_messages[i].msg = "Generated SQL omitted required values"
              /\ error_messages[i].ids = LackingLiterals(generated[k].text)
         /\ IF k < max_retries
            THEN \/ Len(generated) > k
                 \/ pc = "generate" /\ attempt = k + 1
            ELSE pc = "raised" /\ result.kind = "AgentExecutionError"

\* a reply without the literals of the prompt was failed and a reply with
\* them, in another case, was executed
C5_Witness ==
  /\ Len(generated) = 2
  /\ PromptLiterals = KnownLiterals
  /\ generated[1].some
  /\ LackingLiterals(generated[1].text) = KnownLiterals
  /\ failures[1].step = "literals"
  /\ run_select_call.attempt = 2
  /\ result.kind = "SQLAgentResponse"

\* C6, as stated: a guardrail violation, on the prompt or on generated SQL,
\* propagates at once: it consumes no attempt, is never appended to the error
\* history and is never followed by another generation attempt.
C6_AsStated ==
  /\ \A i \in DOMAIN failures : failures[i].exc # "GuardrailViolation"
  /\ \A i \in DOMAIN error_messages :
       error_messages[i].prefix # "Guardrail violation: "

\* C6, amended: a guardrail violation on the prompt propagates at once, before
\* any attempt, with nothing appended to the error history and no generation;
\* a guardrail violation on generated SQL (a missing literal, or validate_sql
\* raising) is caught: it consumes its attempt, appends one summary to the
\* error history, and is followed by another generation attempt while budget
\* remains, otherwise by AgentExecutionError.
C6_GuardrailHandling ==
  /\ result.kind = "GuardrailViolation" =>
       /\ PromptProhibited
       /\ pc = "raised"
       /\ attempt = 0
       /\ error_messages = << >>
       /\ calls.generator = 0
  /\ \A k \in DOMAIN generated :
       ( /\ generated[k].some
         /\ \/ LackingLiterals(generated[k].text) # {}
            \/ /\ ~(pc = "execute" /\ attempt = k)
               /\ \E r \in GeneratorReplies :
                    /\ r.sql.text = generated[k].text
                    /\ UnknownColumns(r.sql.refs) # {} ) =>
         /\ Cardinality(EntriesOf(k)) = 1
         /\ \A i \in EntriesOf(k) :
              /\ i = k
              /\ failures[i].exc = "GuardrailViolation"
              /\ error_messages[i].prefix = "Guardrail violation: "
         /\ IF k < max_retries
            THEN \/ Len(generated) > k
                 \/ pc = "generate" /\ attempt = k + 1
            ELSE /\ pc = "raised"
                 /\ result.kind = "AgentExecutionError"
                 /\ result.attempts = k

\* a reply naming an unknown column was rejected by validate_sql in the first
\* attempt, recorded, and followed by a second generation
C6_Witness ==
  /\ Len(generated) = 2
  /\ failures # << >>
  /\ failures[1].attempt = 1
  /\ failures[1].step = "validate_sql"
  /\ failures[1].exc = "GuardrailViolation"
  /\ error_messages[1].msg = "Unknown column"
  /\ sent.attempt = 2

\* C7: if the prompt contains a prompt-prohibited keyword (as a substring,
\* whatever the case), handle_query raises GuardrailViolation before the
\* classifier, retriever, generator, executor, pipeline or loader is
\* contacted, and the session's history and last intent are left unchanged.
C7_PromptSafety ==
  PromptProhibited =>
    /\ pc \in {"handle_query", "raised"}
    /\ pc = "raised" => result.kind = "GuardrailViolation"
    /\ calls = NoCalls
    /\ run_select_call = NoRunSelect
    /\ history = session0.history
    /\ last_intent = session0.last_intent

\* a prompt with a keyword inside a longer word was refused in a session that
\* has a history
C7_Witness ==
  /\ pc = "raised"
  /\ prompt = <<"R","e","c","e","n","t","l","y"," ","u","p","d","a","t","e","d"," ","p","a","t","i","e","n","t","s">>
  /\ result.kind = "GuardrailViolation"
  /\ history # << >>
  /\ last_intent = "ETL"

\* ------------------------------------------------------------------------
\* The order of the guardrail rules, the retry trace
\* ------------------------------------------------------------------------

\* the rules one by one, each as the exception it raises on the text alone
rule_read_only_shape(query) ==
  IF ~READ_ONLY_PATTERN_match(query)
  THEN Raise("GuardrailViolation", "Only SELECT/CTE queries are permitted.", {})
  ELSE Returned

rule_banned_keyword(query) ==
  IF PROHIBITED_KEYWORDS_search(query)
  THEN Raise("GuardrailViolation", "Detected prohibited SQL keywords (DML/DDL).", {})
  ELSE Returned

rule_single_statement(query) ==
  IF Contains(rstrip_char(strip(query), ";"), <<";">>)
  THEN Raise("GuardrailViolation", "Multiple SQL statements are not allowed.", {})
  ELSE Returned

rule_mandatory_literal(query, literals) ==
  IF literals = << >> THEN Returned ELSE ensure_required_literals(query, literals)

\* the exception of the first rule of `results` that raises, if any does
first_raised(results) ==
  IF \A i \in DOMAIN results : ~results[i].raised THEN Returned
  ELSE results[CHOOSE i \in DOMAIN results :
                 results[i].raised /\ \A j \in 1..(i - 1) : ~results[j].raised]

\* the rules in the order of the specification: the mandatory literal after
\* the known column
rules_as_stated(s, literals) ==
  << rule_read_only_shape(s.text), rule_banned_keyword(s.text),
     rule_single_statement(s.text), ensure_known_tables(s.text, parse_one(s)),
     ensure_known_columns(s.text, parse_one(s)),
     rule_mandatory_literal(s.text, literals) >>

\* the rules in the order of the controller: the mandatory literal first
rules_as_applied(s, literals) ==
  << rule_mandatory_literal(s.text, literals),
     rule_read_only_shape(s.text), rule_banned_keyword(s.text),
     rule_single_statement(s.text), ensure_known_tables(s.text, parse_one(s)),
     ensure_known_columns(s.text, parse_one(s)) >>

\* the last attempt recorded in `failures` failed on a guardrail rule, and
\* `sql` is still the text of that attempt
RuleFailureRecorded ==
  /\ failures # << >>
  /\ failures[Len(failures)].step \in {"literals", "validate_sql"}
  /\ Len(generated) = failures[Len(failures)].attempt

\* `sql` is the text run_select was given in this attempt
Executed ==
  /\ attempt >= 1
  /\ run_select_call.attempt = attempt
  /\ Len(generated) = attempt
  /\ run_select_call.raw = sql.text

\* how many of the rules the text violates
ViolatedRules(s, literals) ==
  Cardinality({i \in 1..6 : rules_as_applied(s, literals)[i].raised})

\* C11, as stated: the rules are applied fail-fast in the order read-only
\* shape, banned keyword, single statement, known table, known column,
\* mandatory literal, LIMIT enforcement; the violation recorded for an attempt
\* is that of the earliest violated rule in this order
C11_AsStated ==
  RuleFailureRecorded =>
    error_messages[Len(error_messages)] =
      summarize_exception(first_raised(rules_as_stated(sql, required_literals)))

\* C11, amended: the rules are applied fail-fast in the order mandatory
\* literal, read-only shape, banned keyword, single statement, known table,
\* known column, LIMIT enforcement; the violation recorded for an attempt is
\* that of the earliest violated rule in this order, and the text reaches the
\* LIMIT rewrite and the engine only if it violates no rule
C11_FailFastOrder ==
  /\ RuleFailureRecorded =>
       error_messages[Len(error_messages)] =
         summarize_exception(first_raised(rules_as_applied(sql, required_literals)))
  /\ Executed => ~first_raised(rules_as_applied(sql, required_literals)).raised

\* an attempt has failed on a text that violates the mandatory literal rule
\* and at least two rules of validate_sql
C11_Witness ==
  /\ RuleFailureRecorded
  /\ rule_mandatory_literal(sql.text, required_literals).raised
  /\ ViolatedRules(sql, required_literals) >= 3
  /\ failures[Len(failures)].step = "literals"

\* the failure of attempt k is caught: one entry is appended to the error
\* history, no turn is recorded, and another attempt follows while budget
\* remains, AgentExecutionError with that entry otherwise
CaughtWith(k, summaries) ==
  /\ Len(error_messages') = Len(error_messages) + 1
  /\ SubSeq(error_messages', 1, Len(error_messages)) = error_messages
  /\ error_messages'[Len(error_messages')] \in summaries
  /\ history' = history
  /\ last_intent' = last_intent
  /\ IF k < max_retries
     THEN attempt' = k + 1 /\ pc' = "generate" /\ result' = result
     ELSE /\ pc' = "raised"
          /\ result'.kind = "AgentExecutionError"
          /\ result'.attempts = k
          /\ result'.errors = error_messages'
          /\ result'.message = error_messages'[Len(error_messages')]

\* the summaries of an empty result set and of a backend error
EngineFailureSummaries ==
  { [prefix |-> "",
     msg |-> "Query returned no rows; relax filters or adjust the time window.",
     ids |-> {}],
    [prefix |-> "Database error: ", msg |-> "backend error", ids |-> {}] }

\* C12: a guardrail violation on generated SQL, an empty result set or a
\* backend execution error never yields a success response; each is caught by
\* the controller, summarized into exactly one error-history entry for that
\* attempt, followed by a further attempt while budget remains, and on the
\* last attempt surfaced as AgentExecutionError whose errors contain that
\* summary
C12_ExecutionErrorsRetried ==
  [][ /\ ( /\ pc = "generate"
           /\ Len(generated') > Len(generated)
           /\ generated'[Len(generated')].some
           /\ rule_mandatory_literal(sql'.text, required_literals).raised )
         => CaughtWith(attempt,
                       {summarize_exception(
                          rule_mandatory_literal(sql'.text, required_literals))})
      /\ pc = "execute"
         => LET violation == first_raised(rules_as_applied(sql, required_literals))
            IN  IF violation.raised
                THEN /\ CaughtWith(attempt, {summarize_exception(violation)})
                     /\ calls' = calls
                ELSE \/ /\ pc' = "returned"
                        /\ result'.kind = "SQLAgentResponse"
                        /\ result'.rows >= 1
                        /\ error_messages' = error_messages
                     \/ /\ CaughtWith(attempt, EngineFailureSummaries)
                        /\ calls'.run_select = calls.run_select + 1
    ]_vars

\* the budget is exhausted after a guardrail violation, a backend error and
\* an empty result set
C12_Witness ==
  /\ pc = "raised"
  /\ result.kind = "AgentExecutionError"
  /\ {"validate_sql", "run_select", "validate_result"}
       \subseteq {failures[i].step : i \in DOMAIN failures}
  /\ Len(result.errors) = Len(failures)

\* ------------------------------------------------------------------------
\* The bulk-load path
\* ------------------------------------------------------------------------

\* the request before this one succeeded under the cache key of this one,
\* with the cache enabled
ReplayOfSuccess ==
  /\ etl_config.cache
  /\ earlier.ended
  /\ earlier.result.kind = "ETLAgentResponse"
  /\ earlier.key = request_key(prompt, etl_config, source_files)

\* C13, as stated: with the cache enabled, after a bulk-load invocation has
\* succeeded under a cache key, a second invocation with the same key returns
\* a Load Result equal to the first in every field (table summaries, attempts,
\* repaired, errors, context) and makes no call to the generator, the
\* pipeline or the loader
C13_AsStated ==
  ReplayOfSuccess =>
    /\ calls.generator = 0
    /\ calls.pipeline = 0
    /\ calls.loader = 0
    /\ pc = "returned" => result = earlier.result

\* the loads issued by the step
NewLoads == SubSeq(loads', Len(loads) + 1, Len(loads'))

\* the message of a load error reports a duplicate key
ReportsDuplicateKey(msg) ==
  \/ ContainsIgnoringCase(msg, <<"u","n","i","q","u","e"," ","c","o","n","s","t","r","a","i","n","t">>)
  \/ ContainsIgnoringCase(msg, <<"d","u","p","l","i","c","a","t","e"," ","k","e","y">>)

\* the step loads a table in insert mode and the load fails on a duplicate key
InsertMeetsDuplicate ==
  /\ pc = "load"
  /\ Len(loads') > Len(loads)
  /\ NewLoads[1].mode = "insert"
  /\ NewLoads[1].raised
  /\ ReportsDuplicateKey(NewLoads[1].msg)

\* after the table at table_index the loop goes on with the next table, or
\* the attempt succeeds after the last one
LoadingContinues ==
  IF table_index < Len(tables)
  THEN pc' = "load" /\ table_index' = table_index + 1 /\ attempt' = attempt
  ELSE /\ pc' = "returned"
       /\ result'.kind = "ETLAgentResponse"
       /\ result'.attempts = attempt
       /\ result'.results[table_index].table = tables[table_index]
       /\ result'.results[table_index].loaded_rows = db_rows'[tables[table_index]]

\* C14: when an insert-mode load of a table fails with a duplicate-key error,
\* the controller issues exactly one further load of the same dataset for that
\* table, in upsert mode and without truncation, in the same attempt; if that
\* retry succeeds the attempt is not failed and no retry budget is consumed,
\* the table's loaded_rows is set from the upsert, strategy 'upsert' is
\* recorded for the table, the table is not in the skip set, and loading
\* continues with the next table
C14_ConflictSelfHealing ==
  [][ InsertMeetsDuplicate =>
        LET table == tables[table_index]
        IN  /\ Len(NewLoads) = 2
            /\ NewLoads[1].table = table
            /\ NewLoads[2].table = table
            /\ NewLoads[2].mode = "upsert"
            /\ ~NewLoads[2].truncate_before_load
            /\ ~NewLoads[2].raised =>
                 /\ db_rows'[table] = SomeRows(inserted_rows("upsert"))
                 /\ strategy'[table] = "upsert"
                 /\ strategy_file'[table] = "upsert"
                 /\ table \notin skip_tables'
                 /\ cache_key.present /\ cache_skips'[cache_key.key].present
                      => table \notin cache_skips'[cache_key.key].value
                 /\ LoadingContinues
    ]_vars

\* a first attempt has succeeded although the insert of patients met a
\* duplicate key: the upsert retry loaded the table
C14_Witness ==
  /\ pc = "returned"
  /\ result.kind = "ETLAgentResponse"
  /\ result.attempts = 1
  /\ Len(loads) = 3
  /\ loads[1].table = <<"p","a","t","i","e","n","t","s">> /\ loads[1].mode = "insert" /\ loads[1].raised
  /\ loads[2].table = <<"p","a","t","i","e","n","t","s">> /\ loads[2].mode = "upsert" /\ ~loads[2].raised
  /\ loads[3].table = <<"e","n","c","o","u","n","t","e","r","s">> /\ ~loads[3].raised
  /\ result.results[1].loaded_rows = SomeRows(DatasetRows)
  /\ strategy[<<"p","a","t","i","e","n","t","s">>] = "upsert"

\* the mode the specification resolves for a table: the recorded strategy if
\* one exists, else upsert if the manifest's on_conflict is upsert or
\* do_nothing, else insert
ResolvedMode(table) ==
  IF strategy[table] # "" THEN strategy[table]
  ELSE IF etl_config.manifest /\ etl_config.on_conflict \in {"upsert", "do_nothing"}
  THEN "upsert"
  ELSE "insert"

\* C15: for each table the first load mode of an attempt is the recorded
\* strategy if one exists, else upsert if the manifest's on_conflict is
\* upsert/do_nothing, else insert; consequently, once 'upsert' has been
\* recorded for a table, no later attempt or run issues an insert-mode load
\* for that table until the strategy is cleared; the record changes only at
\* the table's own load
C15_StrategyPersistence ==
  [][ /\ (pc = "load" /\ Len(loads') > Len(loads)) =>
           /\ NewLoads[1].table = tables[table_index]
           /\ NewLoads[1].mode = ResolvedMode(tables[table_index])
           /\ strategy[tables[table_index]] = "upsert" =>
                \A i \in DOMAIN NewLoads : NewLoads[i].mode = "upsert"
      /\ \A t \in CatalogTableNames :
           strategy'[t] # strategy[t] =>
             /\ pc = "load"
             /\ tables[table_index] = t
             /\ Len(loads') > Len(loads)
      /\ strategy_file' = strategy'
    ]_vars

\* a later request, under settings that prefer insert, loads patients in
\* upsert mode because the request before it recorded that strategy
C15_Witness ==
  /\ invocation = 2
  /\ ~etl_config.manifest
  /\ loads # << >>
  /\ loads[1].table = <<"p","a","t","i","e","n","t","s">>
  /\ loads[1].mode = "upsert"
  /\ ~loads[1].raised
  /\ strategy[<<"p","a","t","i","e","n","t","s">>] = "upsert"

\* the stages of the failed attempts the error history records
FailedStages == {error_history[i].stage : i \in DOMAIN error_history}

Elements(seq) == {seq[i] : i \in DOMAIN seq}

\* the tables of the summaries of a Load Result
SummarizedTables(response) == {response.results[i].table : i \in DOMAIN response.results}

\* C17: for every valid directive, whether it says 'all' or names a single
\* catalog table, the attempt runs the full pipeline, and the tables offered
\* to the loader and the summaries of the resulting Load Result cover every
\* table the pipeline produced, not only the named table
C17_DirectiveOverride ==
  [][ /\ pc = "pipeline" =>
           /\ directive.table \in CatalogTableNames \cup { <<"a","l","l">> }
           /\ calls'.pipeline = calls.pipeline + 1
           /\ pc' \in {"load", "returned"} =>
                /\ pipeline_results' # << >>
                /\ Elements(tables') = Elements(pipeline_results')
                /\ Len(tables') = Len(pipeline_results')
           /\ pc' = "returned" =>
                SummarizedTables(result') = Elements(pipeline_results')
      /\ pc = "load" =>
           /\ tables' = tables
           /\ pipeline_results' = pipeline_results
           /\ Len(loads') > Len(loads) =>
                \A i \in DOMAIN NewLoads : NewLoads[i].table = tables[table_index]
           /\ pc' = "returned" =>
                /\ table_index = Len(tables)
                /\ SummarizedTables(result') = Elements(pipeline_results)
                /\ Len(result'.results) = Len(pipeline_results)
    ]_vars

\* the directive named patients alone, and the Load Result covers patients
\* and encounters, both loaded
C17_Witness ==
  /\ pc = "returned"
  /\ calls.pipeline >= 1
  /\ directive.table = <<"p","a","t","i","e","n","t","s">>
  /\ SummarizedTables(result) = { <<"p","a","t","i","e","n","t","s">>, <<"e","n","c","o","u","n","t","e","r","s">> }
  /\ {loads[i].table : i \in DOMAIN loads} = { <<"p","a","t","i","e","n","t","s">>, <<"e","n","c","o","u","n","t","e","r","s">> }

\* replies that are not a directive, with the message each is refused with:
\* not JSON, an object without a 'table' field, a table outside the catalog
InvalidReplies ==
  { [text |-> <<"a","l","l">>, msg |-> "ETL directive is not valid JSON"],
    [text |-> <<"{","\"","t","a","b","l","e","s","\"",":"," ","\"","a","l","l","\"","}">>,
     msg |-> "ETL directive must be a JSON object with a 'table' field"],
    [text |-> <<"{","\"","t","a","b","l","e","\"",":"," ","\"","v","i","s","i","t","s","\"","}">>,
     msg |-> "Table is not supported. Choose from"] }

\* the failure of the attempt at its directive: one entry is appended to the
\* error history and persisted if there is a cache, neither the pipeline nor
\* the loader is called, and the next attempt follows while budget remains,
\* AgentExecutionError otherwise
DirectiveRefused(stage, msg) ==
  /\ calls'.pipeline = calls.pipeline
  /\ calls'.loader = calls.loader
  /\ loads' = loads
  /\ Len(error_history') = Len(error_history) + 1
  /\ SubSeq(error_history', 1, Len(error_history)) = error_history
  /\ error_history'[Len(error_history')].attempt = attempt
  /\ error_history'[Len(error_history')].stage = stage
  /\ error_history'[Len(error_history')].summary.msg = msg
  /\ IF etl_config.cache
     THEN cache_errors'[request_key(prompt, etl_config, source_files)]
            = Stored(error_history')
     ELSE cache_errors' = cache_errors
  /\ IF attempt < max_retries
     THEN attempt' = attempt + 1 /\ pc' = "directive" /\ result' = result
     ELSE /\ pc' = "raised"
          /\ result'.kind = "AgentExecutionError"
          /\ result'.attempts = max_retries
          /\ result'.errors = error_history'

\* C18: a generator reply that is not valid JSON, is not an object with a
\* 'table' field, or names a table that is neither 'all' nor in the catalog
\* fails the attempt before the pipeline runs or any table is loaded; one
\* error-history entry is appended (and persisted when the cache is enabled),
\* and the next attempt follows if budget remains, otherwise
\* AgentExecutionError is raised with attempts == max_retries
C18_InvalidDirectiveRetryable ==
  [][ \A reply \in InvalidReplies :
        (pc = "directive" /\ calls'.generator = calls.generator + 1
           /\ directive_raw' = reply.text)
          => DirectiveRefused("directive invalid", reply.msg)
    ]_vars

\* with the cache enabled, a budget of two attempts is exhausted by two
\* different invalid directives, and the persisted history holds both entries
C18_Witness ==
  /\ pc = "raised"
  /\ result.kind = "AgentExecutionError"
  /\ etl_config.cache
  /\ max_retries = 2
  /\ invocation = 1
  /\ Len(error_history) = 2
  /\ error_history[1].stage = "directive invalid"
  /\ error_history[2].stage = "directive invalid"
  /\ error_history[1].summary.msg = "ETL directive is not valid JSON"
  /\ error_history[2].summary.msg = "Table is not supported. Choose from"
  /\ cache_errors[cache_key.key] = Stored(error_history)

\* replies that wrap a directive in a Markdown code fence, with and without
\* a language tag, and the table of the directive inside
FencedReplies ==
  { [text |-> <<Backquote,Backquote,Backquote,"j","s","o","n","\n","{","\"","t","a","b","l","e","\"",":"," ","\"","a","l","l","\"","}","\n",Backquote,Backquote,Backquote>>, table |-> <<"a","l","l">>],
    [text |-> <<Backquote,Backquote,Backquote,"\n","{","\"","t","a","b","l","e","\"",":"," ","\"","p","a","t","i","e","n","t","s","\"","}","\n",Backquote,Backquote,Backquote>>, table |-> <<"p","a","t","i","e","n","t","s">>] }

\* C19, as stated: a generator reply consisting of a valid directive JSON
\* object wrapped in a Markdown code fence, with or without a 'json' language
\* tag, is unwrapped and parsed to the same directive as the bare JSON object;
\* it does not fail the attempt
C19_AsStated ==
  \A reply \in FencedReplies :
    directive_raw = reply.text =>
      /\ directive.table = reply.table
      /\ \A i \in DOMAIN error_history :
           error_history[i].summary.msg # "empty separator"

\* the step loads a table in insert mode, the load fails on a duplicate key,
\* and the upsert retry fails too
UpsertRetryFails ==
  /\ InsertMeetsDuplicate
  /\ Len(NewLoads) = 2
  /\ NewLoads[2].mode = "upsert"
  /\ NewLoads[2].raised

\* the attempt fails: another attempt if budget remains, otherwise
\* AgentExecutionError
AttemptFails ==
  IF attempt < max_retries
  THEN attempt' = attempt + 1 /\ pc' = "directive"
  ELSE /\ pc' = "raised"
       /\ result'.kind = "AgentExecutionError"
       /\ result'.attempts = attempt

\* C20, as stated: when the upsert retry that follows a duplicate-key insert
\* failure itself fails, the controller clears any recorded strategy for the
\* table, adds the table to the skip-table set, loads no further table in this
\* attempt, and fails the attempt (another attempt if budget remains,
\* otherwise AgentExecutionError)
C20_AsStated ==
  [][ UpsertRetryFails =>
        /\ strategy'[tables[table_index]] = ""
        /\ tables[table_index] \in skip_tables'
        /\ \A i \in DOMAIN NewLoads : NewLoads[i].table = tables[table_index]
        /\ table_index' = table_index
        /\ AttemptFails
    ]_vars


\* ------------------------------------------------------------------------
\* The loop over the tables: failures, skip flags, strategies, the stores
\* ------------------------------------------------------------------------

\* the step loads a table and the load fails with an error that does not
\* report a duplicate key
NonDuplicateFailure ==
  /\ pc = "load"
  /\ Len(loads') > Len(loads)
  /\ NewLoads[1].raised
  /\ ~ReportsDuplicateKey(NewLoads[1].msg)

\* error_history grows by exactly one entry, of the given stage of the
\* current attempt
OneEntryAppended(stage) ==
  /\ Len(error_history') = Len(error_history) + 1
  /\ SubSeq(error_history', 1, Len(error_history)) = error_history
  /\ error_history'[Len(error_history')].attempt = attempt
  /\ error_history'[Len(error_history')].stage = stage

\* C21: when a table's load fails with an error not recognized as a
\* duplicate-key conflict, no upsert retry is made, the table enters the
\* skip-table set, one entry is appended to the error history, no later table
\* in the order is loaded in that attempt, and the whole attempt is retried if
\* budget remains, otherwise AgentExecutionError is raised
C21_HardFailure ==
  [][ NonDuplicateFailure =>
        /\ Len(NewLoads) = 1
        /\ NewLoads[1].table = tables[table_index]
        /\ tables[table_index] \in skip_tables'
        /\ cache_key.present =>
             /\ cache_skips'[cache_key.key].present
             /\ tables[table_index] \in cache_skips'[cache_key.key].value
        /\ OneEntryAppended("DB load failed")
        /\ table_index' = table_index
        /\ db_rows' = db_rows
        /\ AttemptFails
        /\ pc' = "raised" => result'.errors = error_history'
    ]_vars

\* the load of patients, the first table of two, was refused by the
\* destination for a reason other than a duplicate key: the only attempt has
\* failed, patients is skip-flagged and encounters was never offered to the
\* loader
C21_Witness ==
  /\ pc = "raised"
  /\ result.kind = "AgentExecutionError"
  /\ max_retries = 1
  /\ invocation = 1
  /\ Len(tables) = 2
  /\ Len(loads) = 1
  /\ loads[1].table = <<"p","a","t","i","e","n","t","s">>
  /\ loads[1].raised
  /\ ~ReportsDuplicateKey(loads[1].msg)
  /\ <<"p","a","t","i","e","n","t","s">> \in skip_tables
  /\ Len(error_history) = 1
  /\ error_history[1].stage = "DB load failed"

\* the table at table_index is skip-flagged and its resolved mode is not
\* upsert
SkipFlagged ==
  /\ pc = "load"
  /\ tables[table_index] \in skip_tables
  /\ ResolvedMode(tables[table_index]) # "upsert"

\* the informational note of a skipped table
SkipNote(table) ==
  Note("DB load skipped (duplicate primary key detected earlier).", table)

\* how often an entry occurs in a history
Occurrences(entry, errors) == Cardinality({i \in DOMAIN errors : errors[i] = entry})

\* C22: if a table is in the skip set and its resolved mode is not upsert, the
\* loader is not called for it in that attempt, its loaded_rows is null, an
\* informational note for it appears at most once in the error history, the
\* attempt is not failed because of it, and the following tables in the order
\* are still processed
C22_SkippedNotLoaded ==
  [][ SkipFlagged =>
        /\ loads' = loads
        /\ calls'.loader = calls.loader
        /\ db_rows'[tables[table_index]] = NoRows
        /\ Occurrences(SkipNote(tables[table_index]), error_history') = 1
        /\ Len(error_history') <= Len(error_history) + 1
        /\ tables[table_index] \in skip_tables'
        /\ LoadingContinues
    ]_vars

\* the second attempt has succeeded: patients, whose load failed in the first
\* attempt, was skipped and reports no loaded rows, its note is in the error
\* history, and encounters was loaded after it
C22_Witness ==
  /\ pc = "returned"
  /\ result.kind = "ETLAgentResponse"
  /\ result.attempts = 2
  /\ invocation = 1
  /\ <<"p","a","t","i","e","n","t","s">> \in skip_tables
  /\ result.results[1].table = <<"p","a","t","i","e","n","t","s">>
  /\ result.results[1].loaded_rows = NoRows
  /\ result.results[2].table = <<"e","n","c","o","u","n","t","e","r","s">>
  /\ result.results[2].loaded_rows = SomeRows(DatasetRows)
  /\ Len(loads) = 1
  /\ loads[1].table = <<"e","n","c","o","u","n","t","e","r","s">>
  /\ Occurrences(SkipNote(<<"p","a","t","i","e","n","t","s">>), result.errors) = 1

\* the table at table_index is skip-flagged and its resolved mode is upsert
FlaggedButUpsert ==
  /\ pc = "load"
  /\ tables[table_index] \in skip_tables
  /\ ResolvedMode(tables[table_index]) = "upsert"

\* the persisted skip-table set is the skip-table set, when there is a cache
SkipsPersisted ==
  cache_key.present =>
    /\ cache_skips'[cache_key.key].present
    /\ cache_skips'[cache_key.key].value = skip_tables'

\* C23: if, at a table's turn in an attempt, the table is in the skip set and
\* its resolved load mode is upsert, the table is removed from the skip set
\* (and the persisted set is updated when the cache is enabled) and a load for
\* it is attempted in that same attempt; the flag is back only if that load
\* fails
C23_FlagClearedByUpsert ==
  [][ FlaggedButUpsert =>
        /\ Len(NewLoads) = 1
        /\ NewLoads[1].table = tables[table_index]
        /\ NewLoads[1].mode = "upsert"
        /\ calls'.loader = calls.loader + 1
        /\ SkipsPersisted
        /\ IF NewLoads[1].raised
           THEN skip_tables' = skip_tables
           ELSE /\ skip_tables' = skip_tables \ {tables[table_index]}
                /\ db_rows'[tables[table_index]] = SomeRows(inserted_rows("upsert"))
                /\ LoadingContinues
    ]_vars

\* with the cache enabled, an upsert failed in the first attempt and flagged
\* its table; in the second attempt the flag was cleared, the tables were
\* loaded in upsert mode, and the persisted set is empty
C23_Witness ==
  /\ pc = "returned"
  /\ result.kind = "ETLAgentResponse"
  /\ result.attempts = 2
  /\ invocation = 1
  /\ cache_key.present
  /\ Len(error_history) = 1
  /\ error_history[1].stage = "DB load failed"
  /\ error_history[1].attempt = 1
  /\ loads # << >>
  /\ loads[1].table = <<"p","a","t","i","e","n","t","s">>
  /\ loads[1].mode = "upsert"
  /\ ~loads[1].raised
  /\ skip_tables = {}
  /\ cache_skips[cache_key.key] = Stored({})

\* the cache key of the first request; a later request for the same source
\* files has the same key
KeyOfFirstRequest == request_key(EtlPrompts[1], etl_config, SourceFiles[1])

\* under the cache key of the first request, the turn of table t has come
\* while t is skip-flagged and its resolved mode is not upsert
FlaggedUnderKey(t) ==
  /\ SkipFlagged
  /\ tables[table_index] = t
  /\ cache_key.present
  /\ cache_key.key = KeyOfFirstRequest

\* under the cache key of the first request, the loader has been called for
\* table t in the current attempt
LoadAttemptedUnderKey(t) ==
  /\ cache_key.present
  /\ cache_key.key = KeyOfFirstRequest
  /\ \E i \in DOMAIN loads : loads[i].table = t

PatientDependants ==
  { <<"e","n","c","o","u","n","t","e","r","s">>, <<"p","r","o","c","e","d","u","r","e","s">>, <<"o","b","s","e","r","v","a","t","i","o","n","s">>, <<"m","e","d","i","c","a","t","i","o","n","s">>, <<"c","o","n","d","i","t","i","o","n","s">> }

\* the loader has loaded the table in one of the first n calls of the
\* current attempt
LoadedWithin(table, n) ==
  \E j \in 1..n : loads[j].table = table /\ ~loads[j].raised

\* C25, as stated: in every attempt in which a table that references patient
\* IDs is loaded into the destination, the patients table has been loaded
\* earlier in that same attempt
C25_AsStated ==
  \A i \in DOMAIN loads :
    (loads[i].table \in PatientDependants /\ ~loads[i].raised)
      => LoadedWithin(<<"p","a","t","i","e","n","t","s">>, i - 1)

\* the position of a table in the order of the current attempt
PositionOf(table) == CHOOSE i \in DOMAIN tables : tables[i] = table

\* C25: in every attempt the loader is called for the tables in the fixed
\* dependency order, patients first; a table that references patient IDs is
\* loaded only after the patients table has been loaded earlier in that same
\* attempt, or has been passed over in it because it is skip-flagged
C25_DependencyOrder ==
  /\ pc = "load" =>
       /\ tables[1] = <<"p","a","t","i","e","n","t","s">>
       /\ \A i \in DOMAIN loads : PositionOf(loads[i].table) < table_index
  /\ \A i \in DOMAIN loads :
       /\ loads[i].table \in Elements(tables)
       /\ \A j \in 1..(i - 1) :
            PositionOf(loads[j].table) <= PositionOf(loads[i].table)
  /\ \A i \in DOMAIN loads :
       (loads[i].table \in PatientDependants /\ ~loads[i].raised)
         => \/ LoadedWithin(<<"p","a","t","i","e","n","t","s">>, i - 1)
            \/ /\ <<"p","a","t","i","e","n","t","s">> \in skip_tables
               /\ \A j \in 1..i : loads[j].table # <<"p","a","t","i","e","n","t","s">>

\* the pipeline produced encounters before patients; patients was loaded
\* first and encounters after it
C25_Witness ==
  /\ pc = "returned"
  /\ pipeline_results = << <<"e","n","c","o","u","n","t","e","r","s">>, <<"p","a","t","i","e","n","t","s">> >>
  /\ tables = << <<"p","a","t","i","e","n","t","s">>, <<"e","n","c","o","u","n","t","e","r","s">> >>
  /\ Len(loads) = 2
  /\ loads[1].table = <<"p","a","t","i","e","n","t","s">> /\ ~loads[1].raised
  /\ loads[2].table = <<"e","n","c","o","u","n","t","e","r","s">> /\ ~loads[2].raised
  /\ result.results[2].loaded_rows = SomeRows(inserted_rows(loads[2].mode))

\* the step calls the loader, and its last call, in upsert mode, fails
UpsertFails ==
  /\ pc = "load"
  /\ Len(loads') > Len(loads)
  /\ NewLoads[Len(NewLoads)].mode = "upsert"
  /\ NewLoads[Len(NewLoads)].raised

\* no strategy is recorded for the table after the step, in memory and in the
\* file, and the mode resolved for it next comes from the settings alone
StrategyAbsent(table) ==
  /\ strategy'[table] = ""
  /\ strategy_file'[table] = ""
  /\ ResolvedMode(table)' = IF prefer_upsert(etl_config) THEN "upsert" ELSE "insert"

\* C26, as stated: whenever a load issued in upsert mode for a table fails
\* (the upsert retry after a duplicate-key insert, or a load that started in
\* upsert mode, for any error kind), the table's recorded strategy is absent
\* afterwards
C26_AsStated ==
  [][ UpsertFails => StrategyAbsent(tables[table_index]) ]_vars

\* C26: when the upsert retry after a duplicate-key insert fails, or a load
\* that started in upsert mode fails with a duplicate-key error, the table's
\* recorded strategy is absent afterwards, so that the table's next resolved
\* mode no longer comes from the stored strategy; a load that started in
\* upsert mode and fails with any other error leaves the record as it was
C26_StrategyCleared ==
  [][ UpsertFails =>
        IF Len(NewLoads) = 2 \/ ReportsDuplicateKey(NewLoads[1].msg)
        THEN StrategyAbsent(tables[table_index])
        ELSE /\ strategy' = strategy
             /\ strategy_file' = strategy_file
             /\ ResolvedMode(tables[table_index])' = ResolvedMode(tables[table_index])
    ]_vars

\* under settings that prefer insert, patients was loaded in upsert mode
\* because of its record, the load failed on a duplicate key, and the record
\* is gone
C26_Witness ==
  /\ ~prefer_upsert(etl_config)
  /\ pc \in {"directive", "raised"}
  /\ Len(loads) = 1
  /\ loads[1].table = <<"p","a","t","i","e","n","t","s">>
  /\ loads[1].mode = "upsert"
  /\ loads[1].raised
  /\ ReportsDuplicateKey(loads[1].msg)
  /\ strategy[<<"p","a","t","i","e","n","t","s">>] = ""
  /\ strategy_file[<<"p","a","t","i","e","n","t","s">>] = ""

\* every failed call of the loader in a sequence of calls is followed by a
\* call for the same table that succeeded: the upsert retry
NoLoadFailure(seq) ==
  \A i \in DOMAIN seq :
    seq[i].raised =>
      /\ i < Len(seq)
      /\ seq[i + 1].table = seq[i].table
      /\ ~seq[i + 1].raised

\* C27: with the cache enabled, a final result is stored under the cache key
\* only by an attempt in which every table was processed without a load
\* failure; whenever it is stored, the persisted error-history entry for that
\* key is deleted; an invocation that ends in AgentExecutionError never writes
\* a final result
C27_ResultLifecycle ==
  [][ /\ cache_responses' # cache_responses =>
           /\ etl_config.cache
           /\ cache_key.present
           /\ cache_key.key = request_key(prompt, etl_config, source_files)
           /\ \A k \in DOMAIN cache_responses :
                k # cache_key.key => cache_responses'[k] = cache_responses[k]
           /\ pc \in {"pipeline", "load"}
           /\ pc' = "returned"
           /\ result'.kind = "ETLAgentResponse"
           /\ cache_responses'[cache_key.key]
                = Stored(etl_agent_response_to_cache_payload(result'))
           /\ cache_errors'[cache_key.key] = Absent
           /\ NoLoadFailure(loads')
           /\ Len(result'.results) = Len(tables')
           /\ \A i \in DOMAIN tables' :
                /\ result'.results[i].table = tables'[i]
                /\ result'.results[i].loaded_rows = db_rows'[tables'[i]]
                /\ result'.results[i].loaded_rows.some
                     <=> \E j \in DOMAIN loads' :
                           loads'[j].table = tables'[i] /\ ~loads'[j].raised
      /\ (pc' = "raised" \/ pc = "raised") => cache_responses' = cache_responses
      /\ (pc # "returned" /\ pc' = "returned" /\ etl_config.cache) =>
           /\ cache_responses'[cache_key'.key].present
           /\ cache_errors'[cache_key'.key] = Absent
    ]_vars

\* with the cache enabled, the first attempt failed and its error history was
\* persisted; the second attempt loaded every table, its result is stored
\* under the cache key and the persisted error history is gone
C27_Witness ==
  /\ pc = "returned"
  /\ invocation = 1
  /\ cache_key.present
  /\ result.kind = "ETLAgentResponse"
  /\ result.attempts = 2
  /\ result.errors # << >>
  /\ Len(loads) = 2
  /\ ~loads[1].raised /\ ~loads[2].raised
  /\ cache_responses[cache_key.key] = Stored(etl_agent_response_to_cache_payload(result))
  /\ cache_errors[cache_key.key] = Absent

\* the error history persisted under a cache key; none is an empty one
PersistedErrors(k) == IF cache_errors[k].present THEN cache_errors[k].value ELSE << >>

\* the skip-table set persisted under a cache key; none is an empty one
PersistedSkips(k) == IF cache_skips[k].present THEN cache_skips[k].value ELSE {}

\* the invocation has ended in AgentExecutionError with the cache enabled
EndedInAgentExecutionError ==
  /\ pc = "raised"
  /\ result.kind = "AgentExecutionError"
  /\ cache_key.present

\* the first attempt of an invocation is about to start under the cache key
\* of the invocation before it, which ended in AgentExecutionError
ResumesAfterError ==
  /\ earlier.ended
  /\ earlier.result.kind = "AgentExecutionError"
  /\ pc = "directive"
  /\ attempt = 1
  /\ calls.generator = 0
  /\ cache_key.present
  /\ cache_key.key = earlier.key

\* C28, as stated: with the cache enabled, when a bulk-load invocation ends in
\* AgentExecutionError, the error history persisted under the cache key equals
\* the error history carried by the raised error, and the next invocation with
\* the same key starts its first attempt with exactly that error history and
\* the persisted skip-table set
C28_AsStated ==
  /\ EndedInAgentExecutionError => PersistedErrors(cache_key.key) = result.errors
  /\ ResumesAfterError =>
       /\ error_history = earlier.result.errors
       /\ skip_tables = PersistedSkips(cache_key.key)

\* what stands behind the failure of C24_AsStated: a table that is
\* skip-flagged under the key of the first request while its resolved mode is
\* not upsert is not offered to the loader by any step of a request under
\* that key, and it stays flagged; its mode changes only in a request under
\* another key
FlaggedTableIsNotLoaded ==
  [][ \A t \in { <<"p","a","t","i","e","n","t","s">>, <<"e","n","c","o","u","n","t","e","r","s">> } :
        (t \in PersistedSkips(KeyOfFirstRequest) /\ ResolvedMode(t) # "upsert") =>
          /\ (cache_key.present /\ cache_key.key = KeyOfFirstRequest) =>
               \A i \in DOMAIN NewLoads : NewLoads[i].table # t
          /\ t \in PersistedSkips(KeyOfFirstRequest)'
          /\ ResolvedMode(t)' = "upsert" =>
               (cache_key.present /\ cache_key.key # KeyOfFirstRequest)
    ]_vars

\* ------------------------------------------------------------------------
\* The routing of a request
\* ------------------------------------------------------------------------

\* the request has been dispatched
Dispatched == pc \in {"retrieve", "etl", "raised"} /\ calls.classifier = 1

\* the classifier's model call answered with the label FOLLOWUP
AnsweredFollowup ==
  /\ classifier_reply.raised = ""
  /\ upper(strip(classifier_reply.text)) = <<"F","O","L","L","O","W","U","P">>

\* the session had a recorded intent when the request arrived
HasRecordedIntent == session0.last_intent \in {"SQL", "ETL", "CHART"}

\* the request is handled by the path of the intent
HandledAs(intent) ==
  /\ active_intent = intent
  /\ pc = CASE intent = "SQL" -> "retrieve"
            [] intent = "ETL" -> "etl"
            [] OTHER -> "raised"
  /\ pc = "raised" => result = Propagated("NotImplementedError")

\* C29, as stated: when the classifier answers FOLLOWUP, the request is
\* handled with the session's previously recorded intent; only if the session
\* has no recorded intent is the intent chosen by the deterministic keyword
\* heuristic over the prompt
C29_AsStated ==
  (Dispatched /\ AnsweredFollowup) =>
    IF HasRecordedIntent THEN HandledAs(session0.last_intent)
    ELSE HandledAs(plan_intent(prompt))

\* C29: when the classifier answers FOLLOWUP, the request is handled with the
\* session's previously recorded intent; if the session has no recorded
\* intent it is handled as a SQL request, whatever the keyword heuristic says
\* of the prompt
C29_FollowupRouting ==
  (Dispatched /\ AnsweredFollowup) =>
    IF HasRecordedIntent THEN HandledAs(session0.last_intent)
    ELSE HandledAs("SQL")

\* in a session with no recorded intent the classifier answered FOLLOWUP to a
\* prompt the heuristic takes for a bulk load, and the request went to the SQL
\* path
C29_Witness ==
  /\ Dispatched
  /\ AnsweredFollowup
  /\ ~HasRecordedIntent
  /\ plan_intent(prompt) = "ETL"
  /\ active_intent = "SQL"
  /\ pc = "retrieve"

\* the classifier's model call raised, or answered with a label that is none
\* of SQL, ETL, FOLLOWUP
ClassifierFailed ==
  \/ classifier_reply.raised \in {"LLMError", "Exception"}
  \/ /\ classifier_reply.raised = ""
     /\ upper(strip(classifier_reply.text)) \notin { <<"S","Q","L">>, <<"E","T","L">>, <<"F","O","L","L","O","W","U","P">> }

\* C30: any error raised by the classifier collaborator (or an unrecognized
\* label) does not propagate out of handle_query; the intent is then the
\* session's recorded last intent if one exists, otherwise the keyword
\* heuristic's result, and the request proceeds to routing
C30_ClassifierNeverFatal ==
  (Dispatched /\ ClassifierFailed) =>
    /\ IF HasRecordedIntent THEN HandledAs(session0.last_intent)
       ELSE HandledAs(plan_intent(prompt))
    /\ history = append_json_list(session0.history, UserTurn(prompt), MAX_TURNS_STORED)
    /\ pc = "raised" => active_intent \notin {"SQL", "ETL"}

\* the classifier's model call raised an exception that is not an LLMError, in
\* a session with no recorded intent; the heuristic took the prompt for a bulk
\* load and the request went to the bulk-load path
C30_Witness ==
  /\ Dispatched
  /\ classifier_reply.raised = "Exception"
  /\ ~HasRecordedIntent
  /\ plan_intent(prompt) = "ETL"
  /\ active_intent = "ETL"
  /\ pc = "etl"

\* ------------------------------------------------------------------------
\* _order_tables on its own: the datasets of one pipeline run, then the
\* order in which the table loop visits them
\* ------------------------------------------------------------------------

\* how many datasets one pipeline run produces at most
MaxProduced == 3

\* the names of the datasets a manifest can make the pipeline produce: tables
\* of PREFERRED_LOAD_ORDER and tables outside it
ProducibleTables ==
  { <<"c","o","n","d","i","t","i","o","n","s">>, <<"e","n","c","o","u","n","t","e","r","s">>, <<"p","a","t","i","e","n","t","s">>, <<"v","i","s","i","t","s">>, <<"c","l","a","i","m","s">> }

\* list(pipeline_results): the keys of a dict, so no name twice
ProducedLists ==
  { s \in UNION { [1..n -> ProducibleTables] : n \in 1..MaxProduced } :
      \A i, j \in DOMAIN s : s[i] = s[j] => i = j }

\* the query path and the guard are not running
QueryIdle ==
  /\ max_retries = 0
  /\ last_intent = ""
  /\ session0 = Sessions[1]
  /\ request_history = << >>
  /\ active_intent = ""
  /\ attempt = 0
  /\ error_messages = << >>
  /\ last_sql = NoSql
  /\ sql = EmptySql
  /\ required_literals = << >>
  /\ result = NoResult
  /\ calls = NoCalls
  /\ sent = NoSent
  /\ generated = << >>
  /\ failures = << >>
  /\ run_select_call = NoRunSelect
  /\ classifier_reply = NoReply
  /\ g_pc = "idle"
  /\ g_sql = EmptySql
  /\ g_limit = DefaultResultLimit
  /\ g_res = NoValidation
  /\ g_res2 = NoValidation

\* _handle_etl with the pipeline's datasets at hand
OrderInit ==
  /\ QueryIdle
  /\ prompt = EtlPrompts[1]
  /\ history = << UserTurn(EtlPrompts[1]) >>
  /\ pc = "pipeline"
  /\ pipeline_results \in ProducedLists
  /\ etl_config = EtlConfigs[1]
  /\ source_files = SourceFiles[1]
  /\ cache_responses = [k \in EtlCacheKeys |-> Absent]
  /\ cache_errors = [k \in EtlCacheKeys |-> Absent]
  /\ cache_skips = [k \in EtlCacheKeys |-> Absent]
  /\ cache_key = NoCacheKey
  /\ error_history = << >>
  /\ skip_tables = {}
  /\ strategy = NoStrategies
  /\ strategy_file = NoStrategies
  /\ directive_raw = << >>
  /\ directive = NoDirective
  /\ tables = << >>
  /\ table_index = 0
  /\ db_rows = << >>
  /\ loads = << >>
  /\ invocation = 0
  /\ earlier = NoOutcome
  /\ faults = 0
  /\ PeersIdle

\* tables = _order_tables(list(pipeline_results)), and the table loop begins
OrderTables ==
  /\ pc = "pipeline"
  /\ tables' = chosen_tables(<<"a","l","l">>, pipeline_results)
  /\ pc' = "load"
  /\ UNCHANGED <<max_retries, history, last_intent, prompt, session0, request_history,
                 active_intent, attempt, error_messages, last_sql, sql,
                 required_literals, result, calls, sent, generated, failures,
                 run_select_call, classifier_reply>>
  /\ UNCHANGED gvars
  /\ UNCHANGED xvars
  /\ UNCHANGED <<etl_config, source_files, cache_responses, cache_errors, cache_skips,
                 cache_key, error_history, skip_tables, strategy, strategy_file,
                 directive_raw, directive, pipeline_results, table_index, db_rows,
                 loads, invocation, earlier, faults>>

SpecOrder == OrderInit /\ [][OrderTables]_vars

\* C31: the table loop visits the produced tables of PREFERRED_LOAD_ORDER in
\* that order, then the other produced tables in the pipeline's order, and the
\* visiting order is a permutation of the produced tables
PreferredPart(seq) ==
  SelectSeq(seq, LAMBDA t : t \in Elements(PREFERRED_LOAD_ORDER))

OtherPart(seq) ==
  SelectSeq(seq, LAMBDA t : t \notin Elements(PREFERRED_LOAD_ORDER))

IsSubsequenceOf(short, long) ==
  \E keep \in SUBSET DOMAIN long :
     short = SelectSeq([i \in DOMAIN long |-> IF i \in keep THEN long[i] ELSE << >>],
                       LAMBDA t : t # << >>)

C31_FixedOrder ==
  pc = "load" =>
    /\ tables = PreferredPart(tables) \o OtherPart(tables)
    /\ IsSubsequenceOf(PreferredPart(tables), PREFERRED_LOAD_ORDER)
    /\ OtherPart(tables) = OtherPart(pipeline_results)
    /\ Len(tables) = Len(pipeline_results)
    /\ Elements(tables) = Elements(pipeline_results)
    /\ \A i, j \in DOMAIN tables : tables[i] = tables[j] => i = j

C31_Witness ==
  /\ pc = "load"
  /\ Len(tables) = 3
  /\ tables # pipeline_results
  /\ Cardinality(Elements(OtherPart(tables))) = 2
  /\ PreferredPart(tables) # << >>

\* the loads of the table so far in this invocation include an insert that
\* failed on a duplicate key, followed by its successful upsert retry
ConflictObserved(table) ==
  \E i \in 1..(Len(loads) - 1) :
     /\ loads[i].table = table /\ loads[i].mode = "insert"
     /\ loads[i].raised /\ ReportsDuplicateKey(loads[i].msg)
     /\ loads[i + 1].table = table /\ loads[i + 1].mode = "upsert"
     /\ ~loads[i + 1].raised

\* the step makes an insert of the table that fails on a duplicate key, and
\* then its upsert retry, which succeeds
ConflictInStep(table) ==
  /\ Len(NewLoads) = 2
  /\ NewLoads[1].table = table /\ NewLoads[1].mode = "insert"
  /\ NewLoads[1].raised /\ ReportsDuplicateKey(NewLoads[1].msg)
  /\ NewLoads[2].table = table /\ NewLoads[2].mode = "upsert"
  /\ ~NewLoads[2].raised

\* the step makes a load of the table in upsert mode that succeeds
UpsertInStep(table) ==
  /\ Len(loads') > Len(loads)
  /\ \E i \in DOMAIN NewLoads :
        NewLoads[i].table = table /\ NewLoads[i].mode = "upsert" /\ ~NewLoads[i].raised

\* the manifest of the request sets target.on_conflict to upsert or do_nothing
ManifestAsksUpsert ==
  etl_config.manifest /\ etl_config.on_conflict \in {"upsert", "do_nothing"}

\* the step gives the table a strategy entry it did not have
StrategyCreated(table) == strategy[table] = "" /\ strategy'[table] # ""

\* C32 as the specification words it: a strategy entry is created for a table
\* only by an insert that met a duplicate key and whose upsert retry succeeded
C32_AsStated ==
  [][\A t \in CatalogTableNames : StrategyCreated(t) => ConflictInStep(t)]_vars

\* C32: a strategy entry is created for a table only by a successful load of
\* it in upsert mode, and unless the manifest asks for upsert, only by an
\* insert that met a duplicate key and whose upsert retry succeeded
C32_StrategyFromUpsert ==
  [][\A t \in CatalogTableNames :
       StrategyCreated(t) =>
         /\ strategy'[t] = "upsert"
         /\ UpsertInStep(t)
         /\ ~ManifestAsksUpsert => ConflictInStep(t)]_vars

C32_Witness ==
  \E t \in CatalogTableNames :
     /\ strategy[t] = "upsert"
     /\ ManifestAsksUpsert
     /\ ~ConflictObserved(t)
     /\ \E i \in DOMAIN loads :
           loads[i].table = t /\ loads[i].mode = "upsert" /\ ~loads[i].raised

\* the loader's calls for the table in the attempt that is running or has
\* just ended
LoadsOf(table) == SelectSeq(loads, LAMBDA c : c.table = table)

\* the response comes from an attempt of this invocation that loaded into the
\* database, not from the cache
LoadedResult ==
  /\ pc = "returned"
  /\ result.kind = "ETLAgentResponse"
  /\ etl_config.enable_db_load
  /\ attempt >= 1

FailedAtExecution(k) ==
  \E i \in DOMAIN failures :
     /\ failures[i].attempt = k
     /\ failures[i].step \in {"validate_sql", "run_select", "validate_result"}

\* attempt k failed in the generator or in the check of the required literals
FailedBeforeExecution(k) ==
  \E i \in DOMAIN failures :
     failures[i].attempt = k /\ failures[i].step \in {"generate", "literals"}

\* C37: a repair prompt sent for attempt k embeds the SQL generated in attempt
\* k-1 (outer whitespace removed) and the summary of that attempt's failure,
\* and attempt k-1 failed at validation or execution; after an attempt that
\* failed at generation or at the literal check the plain prompt is sent
C37_RepairInputs ==
  /\ sent.prompt.kind = "repair" =>
       /\ sent.attempt > 1
       /\ generated[sent.attempt - 1].some
       /\ sent.prompt.previous_sql = strip(generated[sent.attempt - 1].text)
       /\ sent.prompt.error_summary = error_messages[sent.attempt - 1]
       /\ FailedAtExecution(sent.attempt - 1)
  /\ (sent.attempt > 1 /\ FailedBeforeExecution(sent.attempt - 1)) =>
       sent.prompt.kind = "generate"

\* the third attempt is sent a repair prompt after two failed executions with
\* different summaries
C37_Witness ==
  /\ sent.attempt = 3
  /\ sent.prompt.kind = "repair"
  /\ FailedAtExecution(1)
  /\ FailedAtExecution(2)
  /\ error_messages[1] # error_messages[2]

\* the request has failed after it was routed
FailedAfterRouting == pc = "raised" /\ calls.classifier > 0

\* the stored history is the one the request found, then the user's turn
UserTurnAppended ==
  /\ Len(history) = Len(session0.history) + 1
  /\ SubSeq(history, 1, Len(session0.history)) = session0.history
  /\ history[Len(history)].role = "user"
  /\ history[Len(history)].prompt = prompt

\* the stored history is the one the request found, then the user's turn,
\* then an agent turn of the intent that served the request
AgentTurnAppended ==
  /\ Len(history) = Len(session0.history) + 2
  /\ SubSeq(history, 1, Len(session0.history)) = session0.history
  /\ history[Len(history) - 1].role = "user"
  /\ history[Len(history) - 1].prompt = prompt
  /\ history[Len(history)].role = "agent"
  /\ history[Len(history)].intent = active_intent

\* C38: the last intent is written and the agent turn appended only once a
\* response is produced, the last intent being the intent that served it; a
\* request that fails after routing leaves the user's turn appended, no agent
\* turn, and the last intent as it was
C38_SessionState ==
  /\ pc = "returned" => (AgentTurnAppended /\ last_intent = active_intent)
  /\ pc # "returned" =>
       /\ last_intent = session0.last_intent
       /\ history = session0.history \/ UserTurnAppended
  /\ FailedAfterRouting => UserTurnAppended

\* a request of a session last served by the ETL path is routed to the SQL
\* path and fails there with its retries exhausted
C38_Witness ==
  /\ FailedAfterRouting
  /\ result.kind = "AgentExecutionError"
  /\ active_intent = "SQL"
  /\ session0.last_intent = "ETL"
  /\ last_intent = "ETL"
  /\ UserTurnAppended

\* ------------------------------------------------------------------------
\* handle_query as a whole: the routing, the query path and the bulk-load
\* path, scheduled fairly
\* ------------------------------------------------------------------------

\* handle_query is between two calls of the query path: the call it is at
\* returns or raises, and the handler goes on
QueryRuns ==
  /\ pc \in {"handle_query", "classify", "retrieve", "generate", "execute"}
  /\ pc' \in {"classify", "retrieve", "generate", "execute", "etl", "returned", "raised"}
  /\ attempt' \in 0..max_retries

\* one request: it arrives in a new session, is routed, and is served by
\* either path (or it is a bulk-load request already routed, under any of the
\* ETL settings); every call of a collaborator returns or raises
SpecService ==
  /\ (Init /\ session0 = Sessions[1]) \/ EtlInit
  /\ [][Next \/ EtlRetrieve \/ EtlDirective \/ EtlPipeline \/ EtlLoad]_vars
  /\ WF_<<pc, attempt>>(QueryRuns)
  /\ WF_<<pc, attempt, table_index>>(HandlerRuns)

\* handle_query has returned a response or raised
Ended == pc \in {"returned", "raised"}

\* the step raises AgentExecutionError
RaisesAgentError ==
  pc # "raised" /\ pc' = "raised" /\ result'.kind = "AgentExecutionError"

\* the step raises the error of the attempt that has just failed: the attempt
\* is the last one, and the error carries its number and the summary that the
\* step appends to the error history
RaisedByLastAttempt ==
  /\ attempt = max_retries
  /\ result'.attempts = attempt
  /\ IF pc \in {"generate", "execute"}
     THEN /\ Len(error_messages') = Len(error_messages) + 1
          /\ result'.message = error_messages'[Len(error_messages')]
     ELSE /\ pc \in {"directive", "pipeline", "load"}
          /\ Len(error_history') > Len(error_history)
          /\ result'.message = error_history'[Len(error_history')].summary

\* with max_retries = 0 the request has reached the loop of its path and ended
EndedAtEmptyLoop ==
  /\ max_retries = 0
  /\ Ended
  /\ calls.retriever > 0
  /\ result.kind # "RetrievalError"

\* the error raised after a loop that ran out of iterations
FellThrough ==
  /\ result.kind = "AgentExecutionError"
  /\ result.message.msg \in {"Agent failed after SQL retries.",
                             "Agent failed after ETL retries."}

FileNames == << <<"a",".","j","s","o","n">>, <<"b",".","j","s","o","n">> >>

\* a file of the raw directory: its name, st_mtime in tenths of a second,
\* st_size
DirFiles ==
  [name : {FileNames[i] : i \in DOMAIN FileNames}, mtime : {1000, 1005, 1010},
   size : {120, 121}]

\* raw_dir.glob(pattern): the matching files in any order, no name twice
Listings ==
  { l \in UNION { [1..n -> DirFiles] : n \in 0..Len(FileNames) } :
      \A i, j \in DOMAIN l : l[i].name = l[j].name => i = j }

\* the settings of a request: those of EtlConfigs with a cache, and another
\* source pattern
KeyConfigs ==
  { EtlConfigs[2], EtlConfigs[3], [EtlConfigs[2] EXCEPT !.source_pattern = "*.ndjson"] }

\* the prompts of the requests: EtlPrompts and another request
KeyPrompts == { EtlPrompts[1], EtlPrompts[2], <<"L","o","a","d"," ","t","h","e"," ","e","n","c","o","u","n","t","e","r","s">> }

\* the listing as the glob returned it
listing_entries_unsorted(listing) ==
  [i \in DOMAIN listing |->
     listing[i].name \o <<":">> \o int_to_str(listing[i].mtime \div 10)
       \o <<":">> \o int_to_str(listing[i].size)]

\* the entries of the signature after pattern= and manifest=: for path in
\* sorted(raw_dir.glob(pattern)), f"{path.name}:{int(stat.st_mtime)}:{stat.st_size}"
listing_entries(listing) ==
  LET rank(f) == CHOOSE r \in DOMAIN FileNames : FileNames[r] = f.name
      files == {listing[i] : i \in DOMAIN listing}
      sorted == [i \in DOMAIN listing |->
                   CHOOSE f \in files :
                     Cardinality({g \in files : rank(g) < rank(f)}) = i - 1]
  IN  [i \in DOMAIN sorted |->
         sorted[i].name \o <<":">> \o int_to_str(sorted[i].mtime \div 10)
           \o <<":">> \o int_to_str(sorted[i].size)]

\* a bulk-load request arrives at a service with a cache client
KeyInit ==
  /\ QueryIdle
  /\ pc = "etl"
  /\ prompt \in KeyPrompts
  /\ history \in {<< >>, Sessions[3].history}
  /\ etl_config \in KeyConfigs
  /\ source_files \in Listings
  /\ cache_responses = [k \in EtlCacheKeys |-> Absent]
  /\ cache_errors = [k \in EtlCacheKeys |-> Absent]
  /\ cache_skips = [k \in EtlCacheKeys |-> Absent]
  /\ cache_key = NoCacheKey
  /\ error_history = << >>
  /\ skip_tables = {}
  /\ strategy = NoStrategies
  /\ strategy_file = NoStrategies
  /\ directive_raw = << >>
  /\ directive = NoDirective
  /\ pipeline_results = << >>
  /\ tables = << >>
  /\ table_index = 0
  /\ db_rows = << >>
  /\ loads = << >>
  /\ invocation = 1
  /\ earlier = NoOutcome
  /\ faults = 0
  /\ PeersIdle

\* cache_key = self._make_etl_cache_key(prompt, etl_settings)
MakeKey ==
  /\ pc = "etl"
  /\ cache_key' = SomeCacheKey(
                    make_etl_cache_key(prompt, etl_config.source_pattern,
                                       etl_config.manifest_path,
                                       listing_entries(source_files)))
  /\ pc' = "keyed"
  /\ UNCHANGED <<max_retries, history, last_intent, prompt, session0, request_history,
                 active_intent, attempt, error_messages, last_sql, sql,
                 required_literals, result, calls, sent, generated, failures,
                 run_select_call, classifier_reply>>
  /\ UNCHANGED gvars
  /\ UNCHANGED xvars
  /\ UNCHANGED <<etl_config, source_files, cache_responses, cache_errors, cache_skips,
                 error_history, skip_tables, strategy, strategy_file,
                 directive_raw, directive, pipeline_results, tables, table_index,
                 db_rows, loads, invocation, earlier, faults>>

\* the next request, and its key: the prompt, the session, the settings or
\* the directory differ from those of the request before (in the directory,
\* the order of the listing, or one file written, added or removed)
NextRequest ==
  /\ pc = "keyed"
  /\ \E l \in { x \in Listings :
                  /\ Cardinality({x[i] : i \in DOMAIN x}
                                 \ {source_files[i] : i \in DOMAIN source_files}) <= 1
                  /\ Cardinality({source_files[i] : i \in DOMAIN source_files}
                                 \ {x[i] : i \in DOMAIN x}) <= 1 } :
     \E p \in KeyPrompts, c \in KeyConfigs :
       /\ Cardinality({i \in 1..3 : <<p, c, l>>[i] # <<prompt, etl_config, source_files>>[i]})
            <= 1
       /\ \E h \in {<< >>, Sessions[3].history} : history' = h
       /\ prompt' = p
       /\ etl_config' = c
       /\ source_files' = l
       /\ cache_key' = SomeCacheKey(
                         make_etl_cache_key(p, c.source_pattern, c.manifest_path,
                                            listing_entries(l)))
  /\ UNCHANGED <<max_retries, last_intent, session0, request_history,
                 active_intent, attempt, error_messages, last_sql, sql,
                 required_literals, result, calls, sent, generated, failures,
                 run_select_call, classifier_reply, pc>>
  /\ UNCHANGED gvars
  /\ UNCHANGED xvars
  /\ UNCHANGED <<cache_responses, cache_errors, cache_skips,
                 error_history, skip_tables, strategy, strategy_file,
                 directive_raw, directive, pipeline_results, tables, table_index,
                 db_rows, loads, invocation, earlier, faults>>

SpecKey == KeyInit /\ [][MakeKey \/ NextRequest]_vars

\* the files of a listing as the signature describes them: name, mtime in
\* whole seconds, size
DescribedFiles(listing) ==
  { <<listing[i].name, listing[i].mtime \div 10, listing[i].size>> : i \in DOMAIN listing }

\* the files of a listing as they are
FilesOf(listing) == { listing[i] : i \in DOMAIN listing }

\* the two requests of the step agree on the normalized prompt, the pattern
\* and the manifest path
SamePromptAndSettings ==
  /\ lower(strip(prompt')) = lower(strip(prompt))
  /\ etl_config'.source_pattern = etl_config.source_pattern
  /\ etl_config'.manifest_path = etl_config.manifest_path

\* the step is a request that follows a request with a key
BothKeyed == cache_key.present /\ cache_key'.present

\* C34 as the specification words it: two requests that agree on the
\* normalized prompt, the pattern, the manifest path and the files' names,
\* mtimes and sizes get the same key, whatever the session, the history and
\* the order of the listing; and a file written (another size or mtime),
\* added or removed changes the signature
C34_AsStated ==
  [][BothKeyed =>
       /\ (SamePromptAndSettings /\ DescribedFiles(source_files') = DescribedFiles(source_files))
            => cache_key'.key = cache_key.key
       /\ FilesOf(source_files') # FilesOf(source_files)
            => cache_key'.key.dir_hash # cache_key.key.dir_hash]_vars

\* C34: two requests get the same key exactly when they agree on the
\* normalized prompt, the pattern, the manifest path and the files' names,
\* sizes and mtimes in whole seconds, whatever the session, the history and
\* the order of the listing; a file added, removed, resized or written in
\* another second changes the signature
C34_KeyDeterminism ==
  [][BothKeyed =>
       /\ (SamePromptAndSettings /\ DescribedFiles(source_files') = DescribedFiles(source_files))
            <=> cache_key'.key = cache_key.key
       /\ DescribedFiles(source_files') # DescribedFiles(source_files)
            <=> cache_key'.key.dir_hash.files # cache_key.key.dir_hash.files]_vars

\* a request after one with another spelling of the prompt, in another
\* session, has the key of the request before; so has a request that finds
\* the same two files listed in the other order
C34_Witness ==
  /\ cache_key.present
  /\ prompt = EtlPrompts[2]
  /\ history # << >>
  /\ Len(source_files) = 2
  /\ source_files[1].name = FileNames[2]
  /\ source_files[1].mtime = 1005
  /\ cache_key.key.prompt_hash = lower(strip(EtlPrompts[1]))

\* ------------------------------------------------------------------------
\* app/etl/db_loader.py: load_table_from_csv on its own
\* ------------------------------------------------------------------------

\* the largest number of data rows of a CSV
MaxCsvRows == 2

\* what a call of load_table_from_csv meets: the LoadRequest, whether the CSV
\* exists and can be read, its data rows, the backend of the database URL,
\* and which statement of the transaction raises SQLAlchemyError (0: none)
LoaderInputs ==
  [request : [table : {<<"p","a","t","i","e","n","t","s">>}, truncate_before_load : BOOLEAN,
              mode : {<<"i","n","s","e","r","t">>, <<"I","n","s","e","r","t">>, <<"u","p","s","e","r","t">>, <<"U","P","S","E","R","T">>}],
   csv_exists : BOOLEAN, csv_readable : BOOLEAN, csv_rows : 0..MaxCsvRows,
   backend : {"postgresql", "sqlite", "mysql"}, failing : 0..2]

\* the statements with TRUNCATE issued whatever the mode
loader_statements_truncating(request, backend) ==
  LET load_mode == lower(request.mode)
  IN  (IF request.truncate_before_load THEN << "TRUNCATE TABLE" >> ELSE << >>)
      \o (IF load_mode = <<"u","p","s","e","r","t">> /\ backend = "postgresql"
          THEN << "INSERT ON CONFLICT DO NOTHING" >>
          ELSE IF load_mode = <<"u","p","s","e","r","t">> /\ backend = "sqlite"
          THEN << "INSERT OR IGNORE" >>
          ELSE << "INSERT" >>)

\* the statements load_table_from_csv executes inside engine.begin() for a
\* CSV with data rows
loader_statements(request, backend) ==
  LET load_mode == lower(request.mode)
  IN  (IF request.truncate_before_load /\ load_mode = <<"i","n","s","e","r","t">>
       THEN << "TRUNCATE TABLE" >> ELSE << >>)
      \o (IF load_mode = <<"u","p","s","e","r","t">> /\ backend = "postgresql"
          THEN << "INSERT ON CONFLICT DO NOTHING" >>
          ELSE IF load_mode = <<"u","p","s","e","r","t">> /\ backend = "sqlite"
          THEN << "INSERT OR IGNORE" >>
          ELSE << "INSERT" >>)

\* load_table_from_csv(request, database=..., chunksize=...): what it raises
\* or returns, and the statements it executed
load_table_from_csv(input) ==
  LET statements == loader_statements(input.request, input.backend)
  IN  IF ~input.csv_exists
      THEN [raised |-> TRUE, exc |-> "DBLoadError", msg |-> "Source CSV not found",
            inserted_rows |-> 0, executed |-> << >>]
      ELSE IF ~input.csv_readable
      THEN [raised |-> TRUE, exc |-> "DBLoadError", msg |-> "Failed to read CSV",
            inserted_rows |-> 0, executed |-> << >>]
      ELSE IF input.csv_rows = 0
      THEN [raised |-> FALSE, exc |-> "", msg |-> "", inserted_rows |-> 0,
            executed |-> << >>]
      ELSE IF input.failing \in DOMAIN statements
      THEN [raised |-> TRUE, exc |-> "DBLoadError", msg |-> "Database load failed",
            inserted_rows |-> 0, executed |-> SubSeq(statements, 1, input.failing)]
      ELSE [raised |-> FALSE, exc |-> "", msg |-> "",
            inserted_rows |-> input.csv_rows, executed |-> statements]

\* a call of load_table_from_csv is about to be made
LoaderInit ==
  /\ QueryIdle
  /\ prompt = << >>
  /\ history = << >>
  /\ pc = "idle"
  /\ EtlIdle
  /\ \E input \in LoaderInputs : loader = [called |-> FALSE, input |-> input]
  /\ peer_strategy = NoStrategies
  /\ appends = << >>

\* the call
LoadTableFromCsv ==
  /\ ~loader.called
  /\ loader' = [called |-> TRUE, input |-> loader.input,
                outcome |-> load_table_from_csv(loader.input)]
  /\ UNCHANGED <<svars, gvars, evars, peer_strategy, appends>>

SpecLoader == LoaderInit /\ [][LoadTableFromCsv]_vars

\* the call has executed TRUNCATE
Truncated ==
  \E i \in DOMAIN loader.outcome.executed : loader.outcome.executed[i] = "TRUNCATE TABLE"

\* the mode of the request, whatever its case
RequestedMode == lower(loader.input.request.mode)

\* C36: load_table_from_csv executes TRUNCATE only if the CSV exists, has a
\* data row, truncate_before_load is set and the mode is insert; a missing
\* CSV raises DBLoadError, an empty dataset returns 0 rows, and neither they
\* nor any load in upsert mode executes a statement that removes rows
C36_TruncateOnlyOnInsert ==
  loader.called =>
    /\ Truncated =>
         /\ loader.input.csv_exists
         /\ loader.input.csv_rows >= 1
         /\ loader.input.request.truncate_before_load
         /\ RequestedMode = <<"i","n","s","e","r","t">>
    /\ ~loader.input.csv_exists =>
         /\ loader.outcome.raised
         /\ loader.outcome.exc = "DBLoadError"
         /\ loader.outcome.executed = << >>
    /\ (loader.input.csv_exists /\ loader.input.csv_readable /\ loader.input.csv_rows = 0) =>
         /\ ~loader.outcome.raised
         /\ loader.outcome.inserted_rows = 0
         /\ loader.outcome.executed = << >>
    /\ RequestedMode = <<"u","p","s","e","r","t">> => ~Truncated

\* an insert with truncate_before_load set has truncated the table and loaded
\* the rows of the CSV
C36_Witness ==
  /\ loader.called
  /\ Truncated
  /\ ~loader.outcome.raised
  /\ loader.outcome.inserted_rows = MaxCsvRows
  /\ loader.input.request.mode = <<"I","n","s","e","r","t">>

\* ------------------------------------------------------------------------
\* app/agent/repair_knowledge.py: two AgentService instances, each with its
\* RepairKnowledge, over the one file .cache/etl_repair_knowledge.json
\* ------------------------------------------------------------------------

\* the tables the two services load
SharedTables == { <<"p","a","t","i","e","n","t","s">>, <<"e","n","c","o","u","n","t","e","r","s">>, <<"c","o","n","d","i","t","i","o","n","s">> }

\* both services have been constructed, RepairKnowledge._load found no file
SharedInit ==
  /\ QueryIdle
  /\ prompt = << >>
  /\ history = << >>
  /\ pc = "idle"
  /\ EtlIdle
  /\ loader = NoLoader
  /\ peer_strategy = NoStrategies
  /\ appends = << >>

\* record_strategy(table, "upsert", ...) by the first service: the entry is
\* set in its _data, and _save writes its _data to the file
RecordStrategy ==
  /\ \E t \in SharedTables :
       /\ strategy' = [strategy EXCEPT ![t] = "upsert"]
       /\ strategy_file' = [strategy EXCEPT ![t] = "upsert"]
  /\ UNCHANGED <<svars, gvars, loader, peer_strategy, appends>>
  /\ UNCHANGED <<etl_config, source_files, cache_responses, cache_errors, cache_skips,
                 cache_key, error_history, skip_tables, directive_raw, directive,
                 pipeline_results, tables, table_index, db_rows, loads, invocation,
                 earlier, faults>>

\* clear_strategy(table) by the first service, for a table of its _data
ClearStrategy ==
  /\ \E t \in SharedTables :
       /\ strategy[t] # ""
       /\ strategy' = [strategy EXCEPT ![t] = ""]
       /\ strategy_file' = [strategy EXCEPT ![t] = ""]
  /\ UNCHANGED <<svars, gvars, loader, peer_strategy, appends>>
  /\ UNCHANGED <<etl_config, source_files, cache_responses, cache_errors, cache_skips,
                 cache_key, error_history, skip_tables, directive_raw, directive,
                 pipeline_results, tables, table_index, db_rows, loads, invocation,
                 earlier, faults>>

\* record_strategy(table, "upsert", ...) by the second service
PeerRecordStrategy ==
  /\ \E t \in SharedTables :
       /\ peer_strategy' = [peer_strategy EXCEPT ![t] = "upsert"]
       /\ strategy_file' = [peer_strategy EXCEPT ![t] = "upsert"]
  /\ UNCHANGED <<svars, gvars, loader, appends>>
  /\ UNCHANGED <<etl_config, source_files, cache_responses, cache_errors, cache_skips,
                 cache_key, error_history, skip_tables, strategy, directive_raw,
                 directive, pipeline_results, tables, table_index, db_rows, loads,
                 invocation, earlier, faults>>

\* clear_strategy(table) by the second service, for a table of its _data
PeerClearStrategy ==
  /\ \E t \in SharedTables :
       /\ peer_strategy[t] # ""
       /\ peer_strategy' = [peer_strategy EXCEPT ![t] = ""]
       /\ strategy_file' = [peer_strategy EXCEPT ![t] = ""]
  /\ UNCHANGED <<svars, gvars, loader, appends>>
  /\ UNCHANGED <<etl_config, source_files, cache_responses, cache_errors, cache_skips,
                 cache_key, error_history, skip_tables, strategy, directive_raw,
                 directive, pipeline_results, tables, table_index, db_rows, loads,
                 invocation, earlier, faults>>

\* the second service is constructed anew: RepairKnowledge._load reads the file
PeerRestart ==
  /\ peer_strategy' = strategy_file
  /\ UNCHANGED <<svars, gvars, loader, appends>>
  /\ UNCHANGED evars

SpecShared ==
  SharedInit /\ [][RecordStrategy \/ ClearStrategy \/ PeerRecordStrategy
                     \/ PeerClearStrategy \/ PeerRestart]_vars

\* the load mode a service resolves for a table without a manifest:
\* get_strategy(table) or "insert"
ModeResolvedFrom(data, table) == IF data[table] # "" THEN data[table] ELSE "insert"

\* C33 as the specification words it: what one service records or clears for
\* a table is what every service sharing the store resolves for it from then
\* on, and the entries of the file are those the services have recorded and
\* not cleared, whichever service wrote last
C33_AsStated ==
  \A t \in SharedTables :
     /\ ModeResolvedFrom(peer_strategy, t) = ModeResolvedFrom(strategy, t)
     /\ ModeResolvedFrom(strategy_file, t) = ModeResolvedFrom(strategy, t)

\* ------------------------------------------------------------------------
\* Two requests of one session handled at the same time by two workers that
\* share the Redis store: app/core/cache.py append_json_list is a read
\* (get_json_list) followed by a write (set_json)
\* ------------------------------------------------------------------------

\* what one request appends to the session's history: its user turn, and the
\* agent turn when it is answered (here by the bulk-load path)
TurnsOfRequest ==
  UNION { { << UserTurn(Prompts[p]) >>,
            << UserTurn(Prompts[p]), AgentTurn("ETL", << >>, 0, << >>) >> } :
          p \in DOMAIN Prompts }

\* a request that has appended nothing yet
Arrived(turns) == [turns |-> turns, done |-> 0, reading |-> FALSE, current |-> << >>]

\* two requests arrive in a new session
TurnsInit ==
  /\ QueryIdle
  /\ prompt = << >>
  /\ history = Sessions[1].history
  /\ pc = "idle"
  /\ EtlIdle
  /\ loader = NoLoader
  /\ peer_strategy = NoStrategies
  /\ \E first \in TurnsOfRequest, second \in TurnsOfRequest :
       appends = << Arrived(first), Arrived(second) >>

\* append_json_list, `current = get_json_list(key)`: the request reads the
\* stored list
GetJsonList ==
  /\ \E i \in DOMAIN appends :
       /\ ~appends[i].reading
       /\ appends[i].done < Len(appends[i].turns)
       /\ appends' = [appends EXCEPT ![i].reading = TRUE, ![i].current = history]
  /\ UNCHANGED <<svars, gvars, evars, loader, peer_strategy>>

\* append_json_list, from `current.append(item)` to `set_json(key, current)`:
\* the request stores the list it read, with its item appended and cut to
\* max_items
SetJson ==
  /\ \E i \in DOMAIN appends :
       /\ appends[i].reading
       /\ history' = append_json_list(appends[i].current,
                                      appends[i].turns[appends[i].done + 1],
                                      MAX_TURNS_STORED)
       /\ appends' = [appends EXCEPT ![i].reading = FALSE, ![i].current = << >>,
                                     ![i].done = @ + 1]
  /\ UNCHANGED <<max_retries, last_intent, pc, prompt, session0, request_history,
                 active_intent, attempt, error_messages, last_sql, sql,
                 required_literals, result, calls, sent, generated, failures,
                 run_select_call, classifier_reply>>
  /\ UNCHANGED <<gvars, evars, loader, peer_strategy>>

SpecTurns == TurnsInit /\ [][GetJsonList \/ SetJson]_vars

\* every append of both requests has completed
AppendsCompleted ==
  /\ appends # << >>
  /\ \A i \in DOMAIN appends : appends[i].done = Len(appends[i].turns)

\* how many turns the two requests appended
TurnsAppended == Len(appends[1].turns) + Len(appends[2].turns)

\* C39 as the specification words it: once both requests' appends have
\* completed, every turn either of them appended is in the stored history,
\* which holds as many turns as were appended unless the cap of 40 cut it
C39_AsStated ==
  AppendsCompleted =>
     \/ Len(history) = MAX_TURNS_STORED
     \/ /\ Len(history) = TurnsAppended
        /\ \A i \in DOMAIN appends : \A k \in DOMAIN appends[i].turns :
              \E j \in DOMAIN history : history[j] = appends[i].turns[k]
====
